---- MODULE Spec2Model ----
(***************************************************************************)
(* Model of the test-orchestration scripts of mcp-shrimp-task-manager:     *)
(*   - EnhancedRetryHandler (scripts/ci-test-mcp.py, dagger_enhanced/      *)
(*     main.py): retry loop, exponential backoff, error categorisation;    *)
(*   - the confidence-threshold lookups (bridge, CI tester, dagger        *)
(*     module);                                                            *)
(*   - ShrimpTaskManagerBridge (mcp-shrimp-bridge.py): the four test       *)
(*     runners, run_all_tests and main.                                    *)
(* Strings that the code inspects are sequences of one-character strings,  *)
(* so that lower-casing and substring search are computed, not assumed.    *)
(* Real numbers are fixed-point integers; the scale is stated where used.  *)
(***************************************************************************)
EXTENDS Integers, Sequences, FiniteSets, TLC

VARIABLES
    \* ---- EnhancedRetryHandler.execute_with_retry ----
    rh_pc,            \* "idle" | "try" | "sleep" | "returned" | "raised"
    max_retries,      \* parameter
    base_delay,       \* parameter, in 1/Resolution seconds
    max_delay,        \* parameter, in 1/Resolution seconds
    attempt,          \* loop variable of  for attempt in range(max_retries + 1)
    last_exception,   \* local
    error_type,       \* local
    delay,            \* local, in 1/Resolution seconds
    rh_return,        \* what the coroutine returned
    propagated,       \* the exception that left the coroutine, if any
    \* ---- what the operation and the event loop observed ----
    invocations,      \* number of times operation() was awaited
    op_raised,        \* exception raised by the latest invocation (or NoException)
    op_result,        \* value returned by the latest invocation (0: none)
    waits,            \* the asyncio.sleep calls performed, in order
    \* ---- configuration (test-config.json as loaded) ----
    config_data,
    \* ---- one call of a threshold lookup ----
    thr_impl,         \* "none" | "bridge" | "ci" | "dagger"
    thr_type,         \* test_type argument
    thr_value,        \* returned threshold, in 1/10000
    \* ---- mcp-shrimp-bridge.py ----
    MCP_TESTING_AVAILABLE,  \* module global set by the import at line 21-28
    br_pc,            \* "start" | "run" | "done" | "exited" | "crashed"
    test_type_arg,    \* args.test_type
    br_index,         \* position of run_all_tests in test_functions (1-based)
    results,          \* run_all_tests: results dict
    overall_confidence,   \* run_all_tests local
    total_weight,     \* run_all_tests local, in 1/100
    used_basic_fallback,  \* bridge.used_basic_fallback
    main_status,      \* results.get("status") in main ("none": no result)
    exit_code,        \* what main returned / the process exit code
    br_propagated,    \* exception that left the test function
    last_result,      \* latest value returned by a run_*_tests function
    call_log,         \* the run_*_tests functions called, in order
    cleanup_mode,     \* bridge.cleanup(): "none" | "skipped" | "tester" | "nothing"
    fw_raised         \* exception the framework raised in run_functional_tests

retryVars ==
    << rh_pc, max_retries, base_delay, max_delay, attempt, last_exception,
       error_type, delay, rh_return, propagated, invocations, op_raised,
       op_result, waits >>

thrVars ==
    << thr_impl, thr_type, thr_value >>

bridgeVars ==
    << MCP_TESTING_AVAILABLE, br_pc, test_type_arg, br_index, results,
       overall_confidence, total_weight, used_basic_fallback, main_status,
       exit_code, br_propagated, last_result, call_log, cleanup_mode,
       fw_raised >>

\* State of one server-process cleanup (test_mcp_server.py 338-346,
\* comprehensive_tool_tester.py 399-407, simple-local-test.py 119-157,
\* llm-mcp-integration-test.py 144-151)
VARIABLES
    cl_site,          \* the routine that runs, "none" before any is started
    cl_pc,            \* position in the routine
    proc,             \* the child: "none" (no Popen object) | "running" | "exited"
    term_pending,     \* SIGTERM was sent to the running child
    kill_pending,     \* SIGKILL was sent to the running child
    exit_cause,       \* "none" | "own" | "SIGTERM" | "SIGKILL"
    cl_polled,        \* what poll() in the guard saw: "unpolled" | "running" | "exited" | "none"
    cl_calls,         \* Popen methods the routine called, in order
    waited,           \* seconds spent in wait(timeout=5)
    cl_return         \* what test_server_startup returned

cleanupVars ==
    << cl_site, cl_pc, proc, term_pending, kill_pending, exit_cause,
       cl_polled, cl_calls, waited, cl_return >>

\* State of one session of a raw JSON-RPC client (llm-mcp-integration-test.py
\* 33-153, real-llm-workflow-test.py 34-114 and 116-245)
VARIABLES
    rpc_client,       \* "none" | "test_mcp_tool_invocation" | "RealLLMWorkflowTester"
    rpc_pc,           \* position of the client
    rpc_sent,         \* the requests written to the server's stdin, in order
    rpc_reads,        \* number of stdout.readline() calls that returned
    names_list_tasks, \* "list_tasks" in tool_names (line 98)
    clock,            \* int(time.time())
    tool_calls,       \* call_mcp_tool invocations asked for by the LLM
    call_name,        \* tool_name of the call being made
    final_call,       \* the call is the final verification (line 216)
    rpc_status        \* how the session ended, "running" before

rpcVars ==
    << rpc_client, rpc_pc, rpc_sent, rpc_reads, names_list_tasks, clock,
       tool_calls, call_name, final_call, rpc_status >>

\* State of one run of the CI tester's main from the collected results on
\* (scripts/ci-test-mcp.py 831-873 and 931-968)
VARIABLES
    sm_pc,            \* "preflight" | "run" | "summary" | "saved" | "exited"
                      \* (by the exit criteria) | "aborted" (exit 1 before them)
    sm_total_tests,   \* len(self.results)
    successful_tests, \* results with status PASSED
    verified_tests,   \* results with verification_passed
    avg_confidence,   \* average confidence_score, in 1/10000
    human_cognitive,  \* error_analysis["human_cognitive"]
    sm_compliant,     \* summary["methodological_pragmatism_compliant"]
    sm_status,        \* summary["status"], "none" before the summary
    ci_exit           \* argument of sys.exit, PyNone while running

summaryVars ==
    << sm_pc, sm_total_tests, successful_tests, verified_tests, avg_confidence,
       human_cognitive, sm_compliant, sm_status, ci_exit >>

\* State of one SimpleIntegratedTester session (test-integrated-simple.py
\* 70-343)
VARIABLES
    it_pc,            \* the next call of the sequence
    it_i,             \* index in formats / commands (1-based)
    spec_uuid,        \* self.spec_uuid, "None" for None
    task_id,          \* self.task_id, "None" for None
    delete_task_id,   \* delete_task_id of test_task_execution
    it_results,       \* self.results
    it_calls,         \* session.call_tool calls made, with what came back
    it_failures       \* calls that did not succeed

integratedVars ==
    << it_pc, it_i, spec_uuid, task_id, delete_task_id, it_results,
       it_calls, it_failures >>

\* State of one EnhancedCIMCPTester.run_comprehensive_tests
\* (scripts/ci-test-mcp.py 726-808)
VARIABLES
    ci_pc,            \* the phase that runs next
    expected_tools,   \* self.expected_tools
    ci_i,             \* position of the for loop in expected_tools (1-based)
    ci_results,       \* self.results
    ci_total_tests    \* summary["total_tests"], PyNone before the summary

ciVars ==
    << ci_pc, expected_tools, ci_i, ci_results, ci_total_tests >>

\* scripts/ci-test-mcp.py: EnhancedCITester.test_server_startup
VARIABLES
    node_path,      \* self.node_path, "None" when no executable was found
    st_attempts,    \* what each call of execute_test did, in order
    st_status       \* status of the returned TestResult, "none" before

startupVars ==
    << node_path, st_attempts, st_status >>

\* The temporary test script of a tool test
VARIABLES
    tf_site,        \* which of the four functions runs
    tf_tool,        \* tool_name
    tf_pre,         \* what happens before a script would be written
    tf_pc,          \* position in the function
    files,          \* names of the files that exist in the directory
    tf_run,         \* what the latest run of the script gave
    tf_exits        \* every exit of the function after a write

tempVars ==
    << tf_site, tf_tool, tf_pre, tf_pc, files, tf_run, tf_exits >>

scriptVars ==
    << cleanupVars, rpcVars, summaryVars, integratedVars, ciVars, startupVars, tempVars >>

\* what the steps of this script leave alone
CleanupFrame ==
    UNCHANGED << retryVars, config_data, thrVars, bridgeVars,
                 rpcVars, summaryVars, integratedVars, ciVars, startupVars, tempVars >>

\* what the steps of this script leave alone
RpcFrame ==
    UNCHANGED << retryVars, config_data, thrVars, bridgeVars,
                 cleanupVars, summaryVars, integratedVars, ciVars, startupVars, tempVars >>

\* what the steps of this script leave alone
SummaryFrame ==
    UNCHANGED << retryVars, config_data, thrVars, bridgeVars,
                 cleanupVars, rpcVars, integratedVars, ciVars, startupVars, tempVars >>

\* what the steps of this script leave alone
IntegratedFrame ==
    UNCHANGED << retryVars, config_data, thrVars, bridgeVars,
                 cleanupVars, rpcVars, summaryVars, ciVars, startupVars, tempVars >>

\* what the steps of this script leave alone
CIFrame ==
    UNCHANGED << retryVars, config_data, thrVars, bridgeVars,
                 cleanupVars, rpcVars, summaryVars, integratedVars, startupVars, tempVars >>

\* what the steps of this script leave alone
StartupFrame ==
    UNCHANGED << config_data, thrVars, bridgeVars,
                 cleanupVars, rpcVars, summaryVars, integratedVars, ciVars, tempVars >>

\* what the steps of this script leave alone
TempFrame ==
    UNCHANGED << config_data, thrVars, bridgeVars,
                 cleanupVars, rpcVars, summaryVars, integratedVars, ciVars, startupVars >>

vars ==
    << retryVars, config_data, thrVars, bridgeVars, scriptVars >>

----------------------------------------------------------------------------
(* Bounds of the model *)

\* largest max_retries explored
MaxRetriesBound ==
    3

\* largest base_delay explored, in 1/Resolution seconds
MaxBaseDelay ==
    2

\* largest max_delay explored, in 1/Resolution seconds
MaxDelayBound ==
    5

\* ticks per second of the fixed-point clock: jitter random.uniform(0, 1)
\* takes the values 0/Resolution .. (Resolution-1)/Resolution
Resolution ==
    2

\* largest number of entries (threshold keys and "confidence" entries) of an
\* explored configuration file
MaxConfigKeys ==
    1

----------------------------------------------------------------------------
(* Strings *)

UpperChars ==
    <<"A","B","C","D","E","F","G","H","I","J","K","L","M",
      "N","O","P","Q","R","S","T","U","V","W","X","Y","Z">>

LowerChars ==
    <<"a","b","c","d","e","f","g","h","i","j","k","l","m",
      "n","o","p","q","r","s","t","u","v","w","x","y","z">>

\* str.lower() on one character
LowerChar(c) ==
    IF \E i \in 1..Len(UpperChars) : UpperChars[i] = c
    THEN LowerChars[CHOOSE i \in 1..Len(UpperChars) : UpperChars[i] = c]
    ELSE c

\* str.lower()
Lower(s) ==
    [i \in 1..Len(s) |-> LowerChar(s[i])]

\* Python's  term in s  on strings: term is a contiguous substring of s
Contains(s, term) ==
    \E i \in 1..(Len(s) - Len(term) + 1) : SubSeq(s, i, i + Len(term) - 1) = term

\* any(term in s for term in terms)
AnyTermIn(terms, s) ==
    \E j \in 1..Len(terms) : Contains(s, terms[j])

human_cognitive_terms ==
    << <<"n","o","t"," ","f","o","u","n","d">>,
       <<"n","o"," ","s","u","c","h"," ","f","i","l","e">>,
       <<"p","e","r","m","i","s","s","i","o","n"," ","d","e","n","i","e","d">>,
       <<"c","o","n","f","i","g">>,
       <<"m","i","s","s","i","n","g">>,
       <<"i","n","v","a","l","i","d">>,
       <<"c","o","m","m","a","n","d"," ","n","o","t"," ","f","o","u","n","d">>,
       <<"m","o","d","u","l","e">> >>

artificial_stochastic_terms ==
    << <<"t","i","m","e","o","u","t">>,
       <<"c","o","n","n","e","c","t","i","o","n">>,
       <<"n","e","t","w","o","r","k">>,
       <<"d","n","s">>,
       <<"r","e","f","u","s","e","d">>,
       <<"t","e","m","p","o","r","a","r","y">>,
       <<"b","u","s","y">>,
       <<"u","n","a","v","a","i","l","a","b","l","e">>,
       <<"r","a","t","e"," ","l","i","m","i","t">> >>

system_failure_terms ==
    << <<"m","e","m","o","r","y">>,
       <<"d","i","s","k">>,
       <<"r","e","s","o","u","r","c","e">>,
       <<"c","o","n","t","a","i","n","e","r">>,
       <<"k","i","l","l","e","d">>,
       <<"o","o","m">> >>

msg_config_missing ==
    <<"C","o","n","f","i","g"," ","M","I","S","S","I","N","G">>

msg_refused_module ==
    <<"c","o","n","n","e","c","t","i","o","n"," ","r","e","f","u","s","e",
    "d",":"," ","m","o","d","u","l","e"," ","n","o","t"," ","f","o","u","n",
    "d">>

msg_conn_timeout ==
    <<"C","o","n","n","e","c","t","i","o","n"," ","t","i","m","e","o","u",
    "t">>

msg_network_disk ==
    <<"n","e","t","w","o","r","k"," ","d","i","s","k"," ","b","u","s","y">>

msg_out_of_memory ==
    <<"O","u","t"," ","o","f"," ","m","e","m","o","r","y">>

msg_boom ==
    <<"b","o","o","m">>

msg_unexpected_eof ==
    <<"u","n","e","x","p","e","c","t","e","d"," ","E","O","F">>

msg_oom_killed ==
    <<"O","O","M"," ","K","i","l","l","e","d">>

msg_cancel_scope ==
    <<"A","t","t","e","m","p","t","e","d"," ","t","o"," ","e","x","i","t",
    " ","C","a","n","c","e","l"," ","S","c","o","p","e">>

msg_empty ==
    <<>>


----------------------------------------------------------------------------
(* Exceptions *)

\* Messages the operation's exceptions carry
Messages ==
    { msg_config_missing, msg_refused_module, msg_conn_timeout,
      msg_network_disk, msg_out_of_memory, msg_boom, msg_unexpected_eof,
      msg_oom_killed }

NoException ==
    [cls |-> "None", msg |-> msg_empty]

\* What operation() can raise: subclasses of Exception with any message, and
\* asyncio.CancelledError, which derives from BaseException only.
Raisable ==
    { [cls |-> "RuntimeError", msg |-> m] : m \in Messages }
        \cup { [cls |-> "CancelledError", msg |-> msg_empty] }

\* isinstance(e, Exception): what  except Exception  catches
IsException(e) ==
    e.cls \notin {"None", "CancelledError", "KeyboardInterrupt", "SystemExit"}

ErrorTypes ==
    { "HUMAN_COGNITIVE", "ARTIFICIAL_STOCHASTIC", "SYSTEM_FAILURE",
      "VALIDATION_FAILURE" }

_categorize_error_swapped(exception) ==
    LET error_message == Lower(exception.msg)
    IN  IF AnyTermIn(artificial_stochastic_terms, error_message)
        THEN "ARTIFICIAL_STOCHASTIC"
        ELSE IF AnyTermIn(human_cognitive_terms, error_message)
        THEN "HUMAN_COGNITIVE"
        ELSE IF AnyTermIn(system_failure_terms, error_message)
        THEN "SYSTEM_FAILURE"
        ELSE "ARTIFICIAL_STOCHASTIC"

\* EnhancedRetryHandler._categorize_error
_categorize_error(exception) ==
    LET error_message == Lower(exception.msg)
    IN  IF AnyTermIn(human_cognitive_terms, error_message)
        THEN "HUMAN_COGNITIVE"
        ELSE IF AnyTermIn(artificial_stochastic_terms, error_message)
        THEN "ARTIFICIAL_STOCHASTIC"
        ELSE IF AnyTermIn(system_failure_terms, error_message)
        THEN "SYSTEM_FAILURE"
        ELSE "ARTIFICIAL_STOCHASTIC"

----------------------------------------------------------------------------
(* Configuration and confidence thresholds *)
(* Percentages are integers; confidence scores and thresholds, which the   *)
(* code holds as floats in [0, 1], are integers in units of 1/10000.       *)

\* Iteration order of the test_functions dict of run_all_tests
TestOrder ==
    << "functional", "security", "performance", "integration" >>

Types ==
    { TestOrder[i] : i \in 1..Len(TestOrder) }

\* f"{test_type}_minimum"
MinimumKey(test_type) ==
    test_type \o "_minimum"

\* Python values that may be None
PyNone ==
    [tag |-> "None", val |-> 0]

PyNum(n) ==
    [tag |-> "num", val |-> n]

\* d.get(key)
DictGet(d, key) ==
    IF key \in DOMAIN d THEN PyNum(d[key]) ELSE PyNone

\* d.get(key, default)  for a number default
DictGetOr(d, key, default) ==
    IF key \in DOMAIN d THEN PyNum(d[key]) ELSE PyNum(default)

\* d.get(key, {})
DictGetDict(d, key) ==
    IF key \in DOMAIN d THEN d[key] ELSE << >>

\* threshold / 100.0, in units of 1/10000
Pct(percent) ==
    percent * 100

\* all dicts with keys among K and values in V
PartialFns(K, V) ==
    UNION { [D -> V] : D \in SUBSET K }

\* values of a "<type>_minimum" key in explored configuration files
NewThresholdValues ==
    { 70, 85 }

\* values of a "confidence"[<type>] entry in explored configuration files
LegacyEntries ==
    { ("threshold" :> 90),
      ("weight" :> 50),
      ("threshold" :> 60 @@ "weight" :> 10) }

\* config_data = {} : neither section present
EmptyConfig ==
    [confidence_thresholds |-> << >>, confidence |-> << >>]

\* The configuration _load_config returns when the file does not exist
DefaultConfig ==
    [confidence_thresholds |->
        ("functional_minimum" :> 70 @@ "security_minimum" :> 80 @@
         "performance_minimum" :> 75 @@ "integration_minimum" :> 85),
     confidence |-> << >>]

\* Contents of a configuration file: the two sections the threshold and
\* weight lookups read; an absent section reads as {}.
ConfigFiles ==
    { c \in [confidence_thresholds :
                PartialFns({MinimumKey(t) : t \in Types}, NewThresholdValues),
             confidence : PartialFns(Types, LegacyEntries)] :
        Cardinality(DOMAIN c.confidence_thresholds)
            + Cardinality(DOMAIN c.confidence) <= MaxConfigKeys }

\* ShrimpTaskManagerBridge.get_confidence_threshold
get_confidence_threshold(cfg, test_type) ==
    LET confidence_config == cfg.confidence
        confidence_thresholds == cfg.confidence_thresholds
        first == DictGet(confidence_thresholds, MinimumKey(test_type))
        threshold ==
            IF first = PyNone
            THEN DictGetOr(DictGetDict(confidence_config, test_type),
                           "threshold", 80)
            ELSE first
    IN  Pct(threshold.val)

\* ConfidenceValidator.get_threshold of dagger_enhanced/main.py
dagger_get_threshold(cfg, test_type) ==
    LET first == DictGet(cfg.confidence_thresholds, MinimumKey(test_type))
        threshold ==
            IF first = PyNone
            THEN DictGetOr(DictGetDict(cfg.confidence, test_type),
                           "threshold", 80)
            ELSE first
    IN  Pct(threshold.val)

\* ConfidenceValidator.get_threshold of scripts/ci-test-mcp.py: the first
\* lookup has the default 80, so it yields None only for a null value
ci_get_threshold(cfg, test_type) ==
    LET first == DictGetOr(cfg.confidence_thresholds, MinimumKey(test_type), 80)
        threshold ==
            IF first = PyNone
            THEN DictGetOr(DictGetDict(cfg.confidence, test_type),
                           "threshold", 80)
            ELSE first
    IN  Pct(threshold.val)

ThresholdIdle ==
    /\ thr_impl = "none"
    /\ thr_type = "none"
    /\ thr_value = 0

(* Result dicts of the bridge, and the bridge before it is started *)

\* A result dict. has_threshold: the dict has a "threshold" key; error and
\* mode "none": the key is absent. Counters, timings and details, which no
\* decision reads, are left out.
Result(status, confidence_score, has_threshold, threshold, mode, error) ==
    [status |-> status, confidence_score |-> confidence_score,
     has_threshold |-> has_threshold, threshold |-> threshold,
     mode |-> mode, error |-> error]

NoResult ==
    Result("none", 0, FALSE, 0, "none", "none")

BridgeIdle ==
    /\ MCP_TESTING_AVAILABLE = FALSE
    /\ br_pc = "idle"
    /\ test_type_arg = "none"
    /\ br_index = 1
    /\ results = << >>
    /\ overall_confidence = 0
    /\ total_weight = 0
    /\ used_basic_fallback = FALSE
    /\ main_status = "none"
    /\ exit_code = PyNone
    /\ br_propagated = NoException
    /\ last_result = [fn |-> "none", result |-> NoResult]
    /\ call_log = << >>
    /\ cleanup_mode = "none"
    /\ fw_raised = NoException

----------------------------------------------------------------------------
(* EnhancedRetryHandler.execute_with_retry *)

Min(a, b) ==
    IF a <= b THEN a ELSE b

RECURSIVE Pow2(_)
\* 2 ** n
Pow2(n) ==
    IF n = 0 THEN 1 ELSE 2 * Pow2(n - 1)

BackoffDelay_uncapped(base, k, jitter, maxd) ==
    Min(base * Pow2(k), maxd) + jitter

\* min(base_delay * (2 ** attempt) + random.uniform(0, 1), max_delay)
BackoffDelay(base, k, jitter, maxd) ==
    Min(base * Pow2(k) + jitter, maxd)

\* values of random.uniform(0, 1), in 1/Resolution seconds
Jitters ==
    0..(Resolution - 1)

NoReturn ==
    [kind |-> "none", value |-> 0, error_type |-> "None", msg_attempts |-> 0,
     retry_count |-> 0, max_retries |-> 0, raw_exception |-> NoException]

\* return result
ReturnResult(result) ==
    [NoReturn EXCEPT !.kind = "result", !.value = result]

\* return ErrorContext(error_type=..., message=f"... failed after
\*   {max_retries + 1} attempts: ...", retry_count=max_retries, ...)
ErrorContext(exc, mr) ==
    [kind |-> "ErrorContext", value |-> 0,
     error_type |-> _categorize_error(exc),
     msg_attempts |-> mr + 1,
     retry_count |-> mr,
     max_retries |-> mr,
     raw_exception |-> exc]

(* The stand-alone test scripts before any of them is started *)

\* test_server_startup has not returned
NoStartupReturn ==
    << FALSE, 0 >>

CleanupIdle ==
    /\ cl_site = "none"
    /\ cl_pc = "idle"
    /\ proc = "none"
    /\ term_pending = FALSE
    /\ kill_pending = FALSE
    /\ exit_cause = "none"
    /\ cl_polled = "unpolled"
    /\ cl_calls = << >>
    /\ waited = 0
    /\ cl_return = NoStartupReturn

RpcIdle ==
    /\ rpc_client = "none"
    /\ rpc_pc = "idle"
    /\ rpc_sent = << >>
    /\ rpc_reads = 0
    /\ names_list_tasks = FALSE
    /\ clock = 0
    /\ tool_calls = 0
    /\ call_name = "none"
    /\ final_call = FALSE
    /\ rpc_status = "none"

SummaryIdle ==
    /\ sm_pc = "idle"
    /\ sm_total_tests = 0
    /\ successful_tests = 0
    /\ verified_tests = 0
    /\ avg_confidence = 0
    /\ human_cognitive = 0
    /\ sm_compliant = FALSE
    /\ sm_status = "none"
    /\ ci_exit = PyNone

IntegratedIdle ==
    /\ it_pc = "idle"
    /\ it_i = 1
    /\ spec_uuid = "None"
    /\ task_id = "None"
    /\ delete_task_id = "None"
    /\ it_results = << >>
    /\ it_calls = << >>
    /\ it_failures = 0

CIIdle ==
    /\ ci_pc = "idle"
    /\ expected_tools = << >>
    /\ ci_i = 1
    /\ ci_results = << >>
    /\ ci_total_tests = PyNone

StartupIdle ==
    /\ node_path = "None"
    /\ st_attempts = << >>
    /\ st_status = "none"

TempIdle ==
    /\ tf_site = "none"
    /\ tf_tool = << >>
    /\ tf_pre = "none"
    /\ tf_pc = "idle"
    /\ files = {}
    /\ tf_run = "none"
    /\ tf_exits = << >>

ScriptsIdle ==
    /\ CleanupIdle
    /\ RpcIdle
    /\ SummaryIdle
    /\ IntegratedIdle
    /\ CIIdle
    /\ StartupIdle
    /\ TempIdle

RetryIdle ==
    /\ rh_pc = "idle"
    /\ max_retries = 0
    /\ base_delay = 0
    /\ max_delay = 0
    /\ attempt = 0
    /\ last_exception = NoException
    /\ error_type = "None"
    /\ delay = 0
    /\ rh_return = NoReturn
    /\ propagated = NoException
    /\ invocations = 0
    /\ op_raised = NoException
    /\ op_result = 0
    /\ waits = << >>

RetryInit ==
    /\ rh_pc = "try"
    /\ max_retries \in 0..MaxRetriesBound
    /\ base_delay \in 0..MaxBaseDelay
    /\ max_delay \in 0..MaxDelayBound
    /\ attempt = 0
    /\ last_exception = NoException
    /\ error_type = "None"
    /\ delay = 0
    /\ rh_return = NoReturn
    /\ propagated = NoException
    /\ invocations = 0
    /\ op_raised = NoException
    /\ op_result = 0
    /\ waits = << >>
    /\ config_data = EmptyConfig
    /\ ThresholdIdle
    /\ BridgeIdle
    /\ ScriptsIdle

AttemptReturns_continue ==
    /\ rh_pc = "try"
    /\ invocations' = invocations + 1
    /\ op_result' = invocations + 1
    /\ op_raised' = NoException
    /\ IF attempt = max_retries
       THEN /\ rh_pc' = "returned"
            /\ rh_return' = ReturnResult(op_result')
            /\ attempt' = attempt
       ELSE /\ rh_pc' = "try"
            /\ rh_return' = rh_return
            /\ attempt' = attempt + 1
    /\ UNCHANGED << max_retries, base_delay, max_delay, last_exception,
                    error_type, delay, propagated, waits >>
    /\ UNCHANGED << config_data, thrVars, bridgeVars, scriptVars >>

\* result = await operation();  return result
\* The operation returns a fresh value (its invocation number).
AttemptReturns ==
    /\ rh_pc = "try"
    /\ invocations' = invocations + 1
    /\ op_result' = invocations + 1
    /\ op_raised' = NoException
    /\ rh_return' = ReturnResult(op_result')
    /\ rh_pc' = "returned"
    /\ UNCHANGED << max_retries, base_delay, max_delay, attempt,
                    last_exception, error_type, delay, propagated, waits >>
    /\ UNCHANGED << config_data, thrVars, bridgeVars, scriptVars >>

RecordException_keepsFirst(last, e) ==
    IF last = NoException THEN e ELSE last

\* last_exception = e
RecordException(last, e) ==
    e

ShouldBreak_noHumanCheck(etype, k, mr) ==
    k = mr

\* if error_type == ErrorType.HUMAN_COGNITIVE: break
\* if attempt == max_retries: break
ShouldBreak(etype, k, mr) ==
    etype = "HUMAN_COGNITIVE" \/ k = mr

\* for attempt in range(max_retries + 1): attempt is a value of the range
InRange(k, mr) ==
    k < mr + 1

\* except Exception as e: ... up to  await asyncio.sleep(delay)  or, after a
\* break, the  return ErrorContext(...)  that follows the loop
HandleException(e, jitter) ==
    /\ last_exception' = RecordException(last_exception, e)
    /\ error_type' = _categorize_error(e)
    /\ propagated' = propagated
    /\ IF ShouldBreak(error_type', attempt, max_retries)
       THEN /\ rh_pc' = "returned"
            /\ rh_return' = ErrorContext(last_exception', max_retries)
            /\ delay' = delay
       ELSE /\ rh_pc' = "sleep"
            /\ delay' = BackoffDelay(base_delay, attempt, jitter, max_delay)
            /\ rh_return' = rh_return

\* result = await operation()  raises e
AttemptRaises ==
    /\ rh_pc = "try"
    /\ \E e \in Raisable, jitter \in Jitters :
          /\ invocations' = invocations + 1
          /\ op_raised' = e
          /\ IF IsException(e)
             THEN HandleException(e, jitter)
             ELSE /\ rh_pc' = "raised"
                  /\ propagated' = e
                  /\ UNCHANGED << last_exception, error_type, delay, rh_return >>
    /\ UNCHANGED << max_retries, base_delay, max_delay, attempt, op_result,
                    waits >>
    /\ UNCHANGED << config_data, thrVars, bridgeVars, scriptVars >>

\* await asyncio.sleep(delay)  completes; the for loop takes its next value
SleepDone ==
    /\ rh_pc = "sleep"
    /\ waits' = Append(waits, [k |-> attempt, delay |-> delay])
    /\ attempt' = attempt + 1
    /\ IF InRange(attempt + 1, max_retries)
       THEN /\ rh_pc' = "try"
            /\ rh_return' = rh_return
       ELSE /\ rh_pc' = "returned"
            /\ rh_return' = ErrorContext(last_exception, max_retries)
    /\ UNCHANGED << max_retries, base_delay, max_delay, last_exception,
                    error_type, delay, propagated, invocations, op_raised,
                    op_result >>
    /\ UNCHANGED << config_data, thrVars, bridgeVars, scriptVars >>

RetryNext ==
    \/ AttemptReturns
    \/ AttemptRaises
    \/ SleepDone

SpecRetry ==
    RetryInit /\ [][RetryNext]_vars

----------------------------------------------------------------------------
(* Claims about EnhancedRetryHandler, checked under SpecRetry *)

\* The latest invocation raised a subclass of Exception
AttemptFailed ==
    op_raised # NoException /\ IsException(op_raised)

\* C1: execute_with_retry invokes the operation at most max_retries + 1
\* times; as soon as one invocation returns, the handler returns that
\* invocation's result and the operation is never invoked again.
C1_BoundedAttemptsFirstSuccessReturned ==
    /\ [](invocations <= max_retries + 1)
    /\ [](op_result # 0 =>
            /\ rh_pc = "returned"
            /\ rh_return = ReturnResult(op_result)
            /\ op_result = invocations)
    /\ [][op_result # 0 => invocations' = invocations]_vars

\* C1 witness: the last permitted attempt succeeds after the retries before
\* it failed.
C1_Witness ==
    /\ rh_pc = "returned"
    /\ rh_return.kind = "result"
    /\ max_retries >= 2
    /\ invocations = max_retries + 1
    /\ Len(waits) = max_retries

\* C2: once an attempt raised an exception categorised HUMAN_COGNITIVE the
\* handler has returned without sleeping, and no later step invokes the
\* operation or sleeps, however many retries remain.
C2_HumanCognitiveNotRetried ==
    /\ [](AttemptFailed /\ _categorize_error(op_raised) = "HUMAN_COGNITIVE"
            => rh_pc = "returned" /\ Len(waits) = invocations - 1)
    /\ [][AttemptFailed /\ _categorize_error(op_raised) = "HUMAN_COGNITIVE"
            => invocations' = invocations /\ waits' = waits]_vars

\* C2 witness: a human-cognitive error on the first of four permitted
\* attempts ends the call.
C2_Witness ==
    /\ AttemptFailed
    /\ _categorize_error(op_raised) = "HUMAN_COGNITIVE"
    /\ max_retries = MaxRetriesBound
    /\ invocations = 1
    /\ rh_pc = "returned"

\* C3: no subclass of Exception raised by the operation leaves
\* execute_with_retry; when the handler has returned, it returned either the
\* operation's result or an ErrorContext whose raw_exception is the exception
\* of the last attempt made and whose error_type is that exception's
\* category.
C3_ReturnsResultOrErrorContext ==
    /\ propagated # NoException => ~IsException(propagated)
    /\ rh_pc = "raised" => ~IsException(op_raised) /\ propagated = op_raised
    /\ AttemptFailed => rh_pc \in {"sleep", "try", "returned"}
    /\ rh_pc = "returned" =>
          \/ /\ rh_return.kind = "result"
             /\ op_raised = NoException
             /\ rh_return.value = op_result
          \/ /\ rh_return.kind = "ErrorContext"
             /\ AttemptFailed
             /\ rh_return.raw_exception = op_raised
             /\ rh_return.error_type = _categorize_error(op_raised)

\* C3 witness: every permitted attempt failed and the last failure was a
\* system failure.
C3_Witness ==
    /\ rh_pc = "returned"
    /\ rh_return.kind = "ErrorContext"
    /\ invocations = max_retries + 1
    /\ invocations >= 3
    /\ rh_return.error_type = "SYSTEM_FAILURE"

\* C4: the ErrorContext returned when the handler gives up reports what
\* happened: the attempt count of its message is the number of invocations
\* of the operation and retry_count is the number of retries performed.
C4_ErrorContextReportsActualCounts ==
    rh_return.kind = "ErrorContext" =>
        /\ rh_return.msg_attempts = invocations
        /\ rh_return.retry_count = invocations - 1

\* C5: the wait before the retry that follows failed attempt k is at least
\* min(base_delay * 2^k, max_delay), at most max_delay, and exceeds
\* base_delay * 2^k by less than one second; the i-th wait follows attempt
\* i - 1, and no wait follows the final attempt.
C5_BackoffWithinBounds ==
    /\ \A i \in 1..Len(waits) :
          /\ waits[i].k = i - 1
          /\ waits[i].k < max_retries
          /\ waits[i].delay >= Min(base_delay * Pow2(waits[i].k), max_delay)
          /\ waits[i].delay <= max_delay
          /\ waits[i].delay < base_delay * Pow2(waits[i].k) + Resolution
    /\ rh_pc = "sleep" =>
          /\ attempt < max_retries
          /\ delay >= Min(base_delay * Pow2(attempt), max_delay)
          /\ delay <= max_delay
    /\ Len(waits) <= invocations
    /\ rh_pc \in {"returned", "raised"} => Len(waits) = invocations - 1

\* C5 witness: all attempts failed; the first wait carried jitter and a
\* later wait was cut to max_delay.
C5_Witness ==
    /\ rh_pc = "returned"
    /\ rh_return.kind = "ErrorContext"
    /\ base_delay > 0
    /\ Len(waits) >= 2
    /\ waits[1].delay > base_delay
    /\ waits[1].delay < max_delay
    /\ waits[Len(waits)].delay = max_delay
    /\ base_delay * Pow2(Len(waits) - 1) > max_delay

\* C6: _categorize_error returns the first group, in the order
\* human-cognitive, artificial-stochastic, system-failure, one of whose terms
\* occurs in the message regardless of case; a message with no term is
\* ARTIFICIAL_STOCHASTIC; VALIDATION_FAILURE is never returned.
C6_FirstMatchingGroupWins ==
    AttemptFailed =>
        LET m  == Lower(op_raised.msg)
            hc == AnyTermIn(human_cognitive_terms, m)
            st == AnyTermIn(artificial_stochastic_terms, m)
            sf == AnyTermIn(system_failure_terms, m)
        IN  /\ error_type \in ErrorTypes \ {"VALIDATION_FAILURE"}
            /\ hc => error_type = "HUMAN_COGNITIVE"
            /\ ~hc /\ st => error_type = "ARTIFICIAL_STOCHASTIC"
            /\ ~hc /\ ~st /\ sf => error_type = "SYSTEM_FAILURE"
            /\ ~hc /\ ~st /\ ~sf => error_type = "ARTIFICIAL_STOCHASTIC"
            /\ op_raised.msg = msg_config_missing => error_type = "HUMAN_COGNITIVE"
            /\ op_raised.msg = msg_oom_killed => error_type = "SYSTEM_FAILURE"

\* C6 witness: a message with an artificial-stochastic term ("connection",
\* "refused") and human-cognitive terms ("module", "not found") is
\* human-cognitive.
C6_Witness ==
    /\ AttemptFailed
    /\ op_raised.msg = msg_refused_module
    /\ error_type = "HUMAN_COGNITIVE"

----------------------------------------------------------------------------
(* The three threshold lookups applied to a loaded configuration *)

ThresholdInit ==
    /\ config_data \in ConfigFiles \cup {DefaultConfig}
    /\ ThresholdIdle
    /\ RetryIdle
    /\ BridgeIdle
    /\ ScriptsIdle

\* bridge.get_confidence_threshold(test_type)
BridgeGetThreshold ==
    /\ \E t \in Types :
          /\ thr_impl' = "bridge"
          /\ thr_type' = t
          /\ thr_value' = get_confidence_threshold(config_data, t)
    /\ UNCHANGED << retryVars, config_data, bridgeVars, scriptVars >>

\* ConfidenceValidator(config_data).get_threshold(test_type), dagger module
DaggerGetThreshold ==
    /\ \E t \in Types :
          /\ thr_impl' = "dagger"
          /\ thr_type' = t
          /\ thr_value' = dagger_get_threshold(config_data, t)
    /\ UNCHANGED << retryVars, config_data, bridgeVars, scriptVars >>

\* ConfidenceValidator(config_data).get_threshold(test_type), CI tester
CIGetThreshold ==
    /\ \E t \in Types :
          /\ thr_impl' = "ci"
          /\ thr_type' = t
          /\ thr_value' = ci_get_threshold(config_data, t)
    /\ UNCHANGED << retryVars, config_data, bridgeVars, scriptVars >>

ThresholdNext ==
    \/ BridgeGetThreshold
    \/ DaggerGetThreshold
    \/ CIGetThreshold

SpecThreshold ==
    ThresholdInit /\ [][ThresholdNext]_vars

\* The threshold the lookup rule gives: new format first, then legacy
\* format, then 80, divided by 100
RuleThreshold(cfg, test_type) ==
    IF MinimumKey(test_type) \in DOMAIN cfg.confidence_thresholds
    THEN Pct(cfg.confidence_thresholds[MinimumKey(test_type)])
    ELSE IF /\ test_type \in DOMAIN cfg.confidence
            /\ "threshold" \in DOMAIN cfg.confidence[test_type]
    THEN Pct(cfg.confidence[test_type]["threshold"])
    ELSE Pct(80)

\* C7: for every test type each of the three lookups returns
\* confidence_thresholds["<type>_minimum"] when present, otherwise
\* confidence["<type>"].threshold when present, otherwise 80, divided by 100.
C7_ThresholdNewThenLegacy ==
    thr_impl # "none" => thr_value = RuleThreshold(config_data, thr_type)

----------------------------------------------------------------------------
(* mcp-shrimp-bridge.py: results of the four test runners *)

\* "passed" if confidence_score >= threshold else "failed"
StatusFor(confidence_score, threshold) ==
    IF confidence_score >= threshold THEN "passed" ELSE "failed"

\* _basic_functional_test
basic_functional_test(cfg, dist_exists, package_exists, package_valid) ==
    LET confidence_score ==
            IF dist_exists /\ package_exists /\ package_valid
            THEN 8500 ELSE 3000
        threshold == get_confidence_threshold(cfg, "functional")
    IN  Result(StatusFor(confidence_score, threshold), confidence_score,
               TRUE, threshold, "basic_fallback", "none")

\* What the file system shows _basic_functional_test: dist/index.js exists,
\* package.json exists, package.json has name and main
FileStates ==
    { fs \in [dist_exists : BOOLEAN, package_exists : BOOLEAN,
              package_valid : BOOLEAN] :
        fs.package_valid => fs.package_exists }

\* Confidence scores the framework reports, in 1/10000
FwConfidences ==
    { 6000, 8200, 9500 }

\* Exceptions the framework raises
BridgeRaisable ==
    { [cls |-> "CancelledError", msg |-> msg_empty],
      [cls |-> "RuntimeError", msg |-> msg_cancel_scope],
      [cls |-> "RuntimeError", msg |-> msg_boom],
      [cls |-> "TimeoutError", msg |-> msg_conn_timeout] }

cancel_scope ==
    <<"c","a","n","c","e","l"," ","s","c","o","p","e">>

\* The except clauses of run_functional_tests: TRUE when the handler that
\* catches e falls back to the basic test, FALSE when it re-raises e
FallsBack(e) ==
    IF e.cls = "CancelledError" THEN TRUE
    ELSE IF e.cls = "RuntimeError"
    THEN Contains(Lower(e.msg), cancel_scope)
    ELSE TRUE

\* run_functional_tests, full framework, no exception:
\*   kind "conn_failed": connectivity status is not "passed"
\*   kind "no_results":  the suite returned nothing for the server
\*   kind "confidence":  server_results.overall_confidence = c
functional_full(cfg, kind, c) ==
    IF kind = "conn_failed"
    THEN Result("failed", 0, FALSE, 0, "none", "connectivity")
    ELSE IF kind = "no_results"
    THEN Result("failed", 0, FALSE, 0, "none", "no_results")
    ELSE LET threshold == get_confidence_threshold(cfg, "functional")
         IN  Result(StatusFor(c, threshold), c, TRUE, threshold,
                    "full_framework", "none")

\* the except Exception branch of the security, performance and
\* integration runners
error_result ==
    Result("error", 0, FALSE, 0, "none", "exception")

\* run_security_tests, basic mode
security_basic(cfg) ==
    Result("passed", 8000, TRUE, get_confidence_threshold(cfg, "security"),
           "basic_fallback", "none")

\* run_security_tests, full framework: security_result falsy, or its
\* confidence_score (0.8 when it has none)
security_full(cfg, falsy, c) ==
    IF falsy
    THEN Result("failed", 0, FALSE, 0, "none", "not_executed")
    ELSE LET threshold == get_confidence_threshold(cfg, "security")
         IN  Result(StatusFor(c, threshold), c, TRUE, threshold,
                    "full_framework", "none")

\* run_performance_tests, basic mode
performance_basic(cfg) ==
    Result("passed", 7500, TRUE, get_confidence_threshold(cfg, "performance"),
           "basic_fallback", "none")

\* max_response_time_ms default of run_performance_tests, in ms
max_allowed_time ==
    2000

\* Average response times of the successful iterations, in ms
AvgResponseTimes ==
    { 100, 1800, 2000, 2500 }

\* run_performance_tests, full framework: n of the 5 connectivity checks
\* passed, with average response time avg
performance_full(cfg, n, avg) ==
    IF n = 0
    THEN Result("failed", 0, FALSE, 0, "none", "no_success")
    ELSE LET confidence_score ==
                 IF avg <= max_allowed_time
                 THEN Min(10000, ((max_allowed_time - avg) * 10000)
                                    \div max_allowed_time + 7000)
                 ELSE 5000
             threshold == get_confidence_threshold(cfg, "performance")
         IN  Result(StatusFor(confidence_score, threshold), confidence_score,
                    TRUE, threshold, "none", "none")

\* run_integration_tests, basic mode
integration_basic(cfg) ==
    Result("passed", 8000, TRUE, get_confidence_threshold(cfg, "integration"),
           "basic_fallback", "none")

\* run_integration_tests, full framework
integration_full(cfg, config_confidence, functionality_confidence) ==
    LET confidence_score == (config_confidence + functionality_confidence) \div 2
        threshold == get_confidence_threshold(cfg, "integration")
    IN  Result(StatusFor(confidence_score, threshold), confidence_score,
               TRUE, threshold, "full_framework", "none")

----------------------------------------------------------------------------
(* mcp-shrimp-bridge.py: run_all_tests and main *)

\* self.config_data.get("confidence", {}).get(test_type, {}).get("weight",
\* 0.25), in 1/100
Weight(cfg, test_type) ==
    DictGetOr(DictGetDict(cfg.confidence, test_type), "weight", 25).val

\* min_confidence = 0.7 if not MCP_TESTING_AVAILABLE else 0.8
MinConfidence(available) ==
    IF ~available THEN 7000 ELSE 8000

OverallStatus_ignoresCount(passed_tests, total_tests, overall, min_confidence) ==
    IF overall >= min_confidence THEN "passed" ELSE "failed"

\* "passed" if passed_tests == total_tests and overall_confidence >=
\* min_confidence else "failed"
OverallStatus(passed_tests, total_tests, overall, min_confidence) ==
    IF passed_tests = total_tests /\ overall >= min_confidence
    THEN "passed" ELSE "failed"

\* exit_code = 0 if results.get("status") == "passed" else 1
ExitCode(status) ==
    IF status = "passed" THEN PyNum(0) ELSE PyNum(1)

\* ShrimpTaskManagerBridge.cleanup: returns at once after a fallback;
\* otherwise calls the cleanup of the tester and of the result manager,
\* which exist only when the framework was imported
cleanup(fallback, available) ==
    IF fallback THEN "skipped"
    ELSE IF available THEN "tester"
    ELSE "nothing"

\* The test function whose turn it is
CurrentTest ==
    IF test_type_arg = "all" THEN TestOrder[br_index] ELSE test_type_arg

\* The process before main runs: the import at the top of the module has
\* succeeded or failed
BridgeInit ==
    /\ MCP_TESTING_AVAILABLE \in BOOLEAN
    /\ br_pc = "start"
    /\ test_type_arg = "none"
    /\ br_index = 1
    /\ results = << >>
    /\ overall_confidence = 0
    /\ total_weight = 0
    /\ used_basic_fallback = FALSE
    /\ main_status = "none"
    /\ exit_code = PyNone
    /\ br_propagated = NoException
    /\ last_result = [fn |-> "none", result |-> NoResult]
    /\ call_log = << >>
    /\ cleanup_mode = "none"
    /\ fw_raised = NoException
    /\ config_data = EmptyConfig
    /\ ThresholdIdle
    /\ RetryIdle
    /\ ScriptsIdle

\* main up to the first test function: parse_args and
\* ShrimpTaskManagerBridge(args.config), whose _load_config reads the file,
\* takes the built-in configuration when it is missing, and calls
\* sys.exit(1) when it is not valid JSON
StartMain ==
    /\ br_pc = "start"
    /\ \E tt \in Types \cup {"all"} :
          /\ test_type_arg' = tt
          /\ \/ /\ \E c \in ConfigFiles : config_data' = c
                /\ br_pc' = "run"
                /\ exit_code' = exit_code
             \/ /\ config_data' = DefaultConfig
                /\ br_pc' = "run"
                /\ exit_code' = exit_code
             \/ /\ config_data' = config_data
                /\ br_pc' = "exited"
                /\ exit_code' = PyNum(1)
    /\ UNCHANGED << MCP_TESTING_AVAILABLE, br_index, results,
                    overall_confidence, total_weight, used_basic_fallback,
                    main_status, br_propagated, last_result, call_log,
                    cleanup_mode, fw_raised >>
    /\ UNCHANGED << retryVars, thrVars, scriptVars >>

\* A test function returned result to its caller (the action that uses
\* this has set used_basic_fallback'). Called from main: main cleans up and
\* returns the exit code. Called from run_all_tests: the loop
\* body after the call, and after the last test function the summary,
\* followed by main's cleanup and exit code.
Complete(t, result) ==
    /\ last_result' = [fn |-> t, result |-> result]
    /\ call_log' = Append(call_log, t)
    /\ br_propagated' = br_propagated
    /\ IF test_type_arg = "all"
       THEN LET weight == Weight(config_data, t)
                sum == overall_confidence + result.confidence_score * weight
                tw == total_weight + weight
                res == (t :> result) @@ results
                passed_tests ==
                    Cardinality({ x \in DOMAIN res : res[x].status = "passed" })
                total_tests == Cardinality(DOMAIN res)
                overall == IF tw > 0 THEN sum \div tw ELSE sum
            IN  /\ results' = res
                /\ total_weight' = tw
                /\ IF br_index = Len(TestOrder)
                   THEN /\ overall_confidence' = overall
                        /\ main_status' =
                              OverallStatus(passed_tests, total_tests, overall,
                                            MinConfidence(MCP_TESTING_AVAILABLE))
                        /\ cleanup_mode' = cleanup(used_basic_fallback',
                                                   MCP_TESTING_AVAILABLE)
                        /\ exit_code' = ExitCode(main_status')
                        /\ br_pc' = "done"
                        /\ br_index' = br_index
                   ELSE /\ overall_confidence' = sum
                        /\ br_index' = br_index + 1
                        /\ UNCHANGED << main_status, exit_code, br_pc,
                                        cleanup_mode >>
       ELSE /\ main_status' = result.status
            /\ cleanup_mode' = cleanup(used_basic_fallback',
                                       MCP_TESTING_AVAILABLE)
            /\ exit_code' = ExitCode(main_status')
            /\ br_pc' = "done"
            /\ UNCHANGED << results, overall_confidence, total_weight,
                            br_index >>

\* An exception left the test function. A subclass of Exception reaches the
\* except clause of main, which returns 1; any other leaves main.
Propagate(t, e) ==
    /\ call_log' = Append(call_log, t)
    /\ br_propagated' = e
    /\ IF IsException(e)
       THEN /\ br_pc' = "done"
            /\ exit_code' = PyNum(1)
       ELSE /\ br_pc' = "crashed"
            /\ exit_code' = exit_code
    /\ UNCHANGED << results, overall_confidence, total_weight, br_index,
                    main_status, last_result, cleanup_mode >>

\* await self.run_functional_tests()
RunFunctional ==
    /\ br_pc = "run"
    /\ CurrentTest = "functional"
    /\ \E fs \in FileStates :
        LET basic == basic_functional_test(config_data, fs.dist_exists,
                                           fs.package_exists, fs.package_valid)
        IN  IF ~MCP_TESTING_AVAILABLE
            THEN /\ UNCHANGED << used_basic_fallback, fw_raised >>
                 /\ Complete("functional", basic)
            ELSE \/ \E kind \in {"conn_failed", "no_results", "confidence"},
                       c \in FwConfidences :
                        /\ UNCHANGED << used_basic_fallback, fw_raised >>
                        /\ Complete("functional",
                                    functional_full(config_data, kind, c))
                 \/ \E e \in BridgeRaisable :
                        /\ fw_raised' = e
                        /\ IF FallsBack(e)
                           THEN /\ used_basic_fallback' = TRUE
                                /\ Complete("functional", basic)
                           ELSE /\ used_basic_fallback' = used_basic_fallback
                                /\ Propagate("functional", e)
    /\ UNCHANGED << MCP_TESTING_AVAILABLE, test_type_arg, config_data >>
    /\ UNCHANGED << retryVars, thrVars, scriptVars >>

\* await self.run_security_tests()
RunSecurity ==
    /\ br_pc = "run"
    /\ CurrentTest = "security"
    /\ UNCHANGED << used_basic_fallback, fw_raised >>
    /\ IF ~MCP_TESTING_AVAILABLE
       THEN Complete("security", security_basic(config_data))
       ELSE \/ \E falsy \in BOOLEAN, c \in FwConfidences \cup {8000} :
                  Complete("security", security_full(config_data, falsy, c))
            \/ \E e \in BridgeRaisable :
                  IF IsException(e)
                  THEN Complete("security", error_result)
                  ELSE Propagate("security", e)
    /\ UNCHANGED << MCP_TESTING_AVAILABLE, test_type_arg, config_data >>
    /\ UNCHANGED << retryVars, thrVars, scriptVars >>

\* await self.run_performance_tests()
RunPerformance ==
    /\ br_pc = "run"
    /\ CurrentTest = "performance"
    /\ UNCHANGED << used_basic_fallback, fw_raised >>
    /\ IF ~MCP_TESTING_AVAILABLE
       THEN Complete("performance", performance_basic(config_data))
       ELSE \/ \E n \in 0..5, avg \in AvgResponseTimes :
                  Complete("performance",
                           performance_full(config_data, n, avg))
            \/ \E e \in BridgeRaisable :
                  IF IsException(e)
                  THEN Complete("performance", error_result)
                  ELSE Propagate("performance", e)
    /\ UNCHANGED << MCP_TESTING_AVAILABLE, test_type_arg, config_data >>
    /\ UNCHANGED << retryVars, thrVars, scriptVars >>

\* await self.run_integration_tests()
RunIntegration ==
    /\ br_pc = "run"
    /\ CurrentTest = "integration"
    /\ UNCHANGED << used_basic_fallback, fw_raised >>
    /\ IF ~MCP_TESTING_AVAILABLE
       THEN Complete("integration", integration_basic(config_data))
       ELSE \/ \E cc \in FwConfidences \cup {9000},
                  fc \in FwConfidences \cup {8000} :
                  Complete("integration",
                           integration_full(config_data, cc, fc))
            \/ \E e \in BridgeRaisable :
                  IF IsException(e)
                  THEN Complete("integration", error_result)
                  ELSE Propagate("integration", e)
    /\ UNCHANGED << MCP_TESTING_AVAILABLE, test_type_arg, config_data >>
    /\ UNCHANGED << retryVars, thrVars, scriptVars >>

BridgeNext ==
    \/ StartMain
    \/ RunFunctional
    \/ RunSecurity
    \/ RunPerformance
    \/ RunIntegration

SpecBridge ==
    BridgeInit /\ [][BridgeNext]_vars

----------------------------------------------------------------------------
(* Claims about the bridge, checked under SpecBridge *)

RECURSIVE SumOver(_, _)
\* f(TestOrder[1]) + ... + f(TestOrder[n]) for a function f on Types
SumOver(f, n) ==
    IF n = 0 THEN 0 ELSE f[TestOrder[n]] + SumOver(f, n - 1)

\* call_log is the first Len(call_log) entries of TestOrder
InTestOrder ==
    /\ Len(call_log) <= Len(TestOrder)
    /\ \A i \in 1..Len(call_log) : call_log[i] = TestOrder[i]

\* run_all_tests has returned to main
RunAllReturned ==
    /\ test_type_arg = "all"
    /\ br_pc = "done"
    /\ br_propagated = NoException

\* C8: a result returned by one of the four run_*_tests functions that
\* carries a threshold has status "passed" only if its confidence_score is
\* at least that threshold.
C8_PassedOnlyAtThreshold ==
    last_result.result.has_threshold /\ last_result.result.status = "passed"
        => last_result.result.confidence_score >= last_result.result.threshold

\* C9: run_all_tests calls the test functions in the order functional,
\* security, performance, integration, none twice; when it returns it has
\* called all four and its status is "passed" exactly when all four results
\* are "passed" and the weighted mean of their confidence scores is >= 0.7
\* (framework unavailable) or >= 0.8 (available); main returns 0 exactly
\* when the status of the result it obtained is "passed".
C9_RunAllStatusAndExitCode ==
    /\ test_type_arg = "all" => InTestOrder
    /\ RunAllReturned =>
          LET weighted == [t \in Types |->
                              results[t].confidence_score * Weight(config_data, t)]
              weights == [t \in Types |-> Weight(config_data, t)]
              minimum == IF MCP_TESTING_AVAILABLE THEN 8000 ELSE 7000
          IN  /\ call_log = TestOrder
              /\ DOMAIN results = Types
              /\ main_status \in {"passed", "failed"}
              /\ main_status = "passed" <=>
                    /\ \A t \in Types : results[t].status = "passed"
                    /\ SumOver(weighted, Len(TestOrder))
                          >= minimum * SumOver(weights, Len(TestOrder))
    /\ br_pc = "done" /\ br_propagated = NoException /\ test_type_arg # "all"
          => /\ call_log = << test_type_arg >>
             /\ main_status = last_result.result.status
    /\ br_pc = "done" => (exit_code = PyNum(0) <=> main_status = "passed")
    /\ br_pc = "done" => exit_code \in {PyNum(0), PyNum(1)}

\* C9 witness: with the framework available all four tests pass and the
\* weights differ; the plain mean of the scores is below 0.8, the weighted
\* mean is not, and the run passes.
C9_Witness ==
    /\ RunAllReturned
    /\ MCP_TESTING_AVAILABLE
    /\ \A t \in Types : results[t].status = "passed"
    /\ \E t \in Types : Weight(config_data, t) # 25
    /\ results["functional"].confidence_score
         + results["security"].confidence_score
         + results["performance"].confidence_score
         + results["integration"].confidence_score < 4 * 8000
    /\ main_status = "passed"
    /\ exit_code = PyNum(0)

\* C10: when the framework is available and raises an exception during
\* run_functional_tests, the bridge sets used_basic_fallback, returns the
\* result of the basic functional test and does not propagate the exception.
C10_AnyFrameworkExceptionFallsBack ==
    MCP_TESTING_AVAILABLE /\ fw_raised # NoException =>
        /\ used_basic_fallback
        /\ last_result.fn = "functional" =>
              last_result.result.mode = "basic_fallback"
        /\ Len(call_log) = 1 => last_result.fn = "functional"
        /\ br_propagated = NoException


----------------------------------------------------------------------------
(* Cleanup of a spawned server process: MCPServerTester.cleanup,
   ComprehensiveToolTester.cleanup, test_server_startup of
   simple-local-test.py and the finally block of test_mcp_tool_invocation.
   The child is a process of its own: it may exit at any moment, it may
   ignore SIGTERM, and SIGKILL ends it when the kernel delivers it. *)

CleanupSites ==
    {"MCPServerTester.cleanup", "ComprehensiveToolTester.cleanup",
     "test_server_startup", "test_mcp_tool_invocation"}

\* the timeout of every wait(timeout=5), in seconds
WaitTimeout ==
    5

\* self.server_process is None until start_server ran; the two local
\* variables always hold a Popen object when the cleanup is reached
ProcStatesAtEntry(site) ==
    IF site = "test_server_startup" THEN {"running"}
    ELSE IF site = "test_mcp_tool_invocation" THEN {"running", "exited"}
    ELSE {"none", "running", "exited"}

\* the branch the guard "process and process.poll() is None" takes for a
\* child that has exited or was never spawned too
PollBranch_always ==
    "terminate"

\* the branch the guard "process and process.poll() is None" takes
PollBranch ==
    IF proc = "running" THEN "terminate" ELSE "done"

CleanupInit ==
    /\ cl_site \in CleanupSites
    /\ cl_pc = IF cl_site = "test_server_startup" THEN "sleep" ELSE "poll"
    /\ proc \in ProcStatesAtEntry(cl_site)
    \* test_mcp_tool_invocation may have called terminate() at line 122
    /\ term_pending \in IF cl_site = "test_mcp_tool_invocation" /\ proc = "running"
                        THEN BOOLEAN ELSE {FALSE}
    /\ kill_pending = FALSE
    /\ exit_cause = IF proc = "exited" THEN "own" ELSE "none"
    /\ cl_polled = "unpolled"
    /\ cl_calls = << >>
    /\ waited = 0
    /\ cl_return = NoStartupReturn
    /\ RetryIdle
    /\ config_data = EmptyConfig
    /\ ThresholdIdle
    /\ BridgeIdle
    /\ RpcIdle
    /\ SummaryIdle
    /\ IntegratedIdle
    /\ CIIdle
    /\ StartupIdle
    /\ TempIdle

\* time.sleep(3) of test_server_startup
SleepEnds ==
    /\ cl_pc = "sleep"
    /\ cl_pc' = "poll"
    /\ UNCHANGED << cl_site, proc, term_pending, kill_pending, exit_cause,
                    cl_polled, cl_calls, waited, cl_return >>
    /\ CleanupFrame

\* the guard of the cleanup; test_server_startup reads the output of a
\* child that has exited and returns (False, 25.0)
Poll ==
    /\ cl_pc = "poll"
    /\ cl_polled' = proc
    /\ cl_pc' = PollBranch
    /\ IF cl_pc' = "done" /\ cl_site = "test_server_startup"
       THEN /\ cl_calls' = Append(cl_calls, "communicate")
            /\ cl_return' = << FALSE, 25 >>
       ELSE UNCHANGED << cl_calls, cl_return >>
    /\ UNCHANGED << cl_site, proc, term_pending, kill_pending, exit_cause,
                    waited >>
    /\ CleanupFrame

\* process.terminate(): SIGTERM goes to a child that is still running
Terminate ==
    /\ cl_pc = "terminate"
    /\ cl_calls' = Append(cl_calls, "terminate")
    /\ term_pending' = (term_pending \/ proc = "running")
    /\ cl_pc' = "wait"
    /\ UNCHANGED << cl_site, proc, kill_pending, exit_cause, cl_polled,
                    waited, cl_return >>
    /\ CleanupFrame

\* one second passes inside process.wait(timeout=5)
Tick ==
    /\ cl_pc = "wait"
    /\ proc = "running"
    /\ waited < WaitTimeout
    /\ waited' = waited + 1
    /\ UNCHANGED << cl_site, cl_pc, proc, term_pending, kill_pending,
                    exit_cause, cl_polled, cl_calls, cl_return >>
    /\ CleanupFrame

\* process.wait(timeout=5) returns: the child has exited
WaitReturns ==
    /\ cl_pc = "wait"
    /\ proc # "running"
    /\ cl_calls' = Append(cl_calls, "wait")
    /\ cl_pc' = "done"
    /\ cl_return' = IF cl_site = "test_server_startup"
                    THEN << TRUE, 90 >> ELSE cl_return
    /\ UNCHANGED << cl_site, proc, term_pending, kill_pending, exit_cause,
                    cl_polled, waited >>
    /\ CleanupFrame

\* process.wait(timeout=5) raises subprocess.TimeoutExpired
WaitTimesOut ==
    /\ cl_pc = "wait"
    /\ proc = "running"
    /\ waited = WaitTimeout
    /\ cl_calls' = Append(cl_calls, "wait")
    /\ cl_pc' = "kill"
    /\ UNCHANGED << cl_site, proc, term_pending, kill_pending, exit_cause,
                    cl_polled, waited, cl_return >>
    /\ CleanupFrame

\* process.kill() in the handler of TimeoutExpired; nothing waits for the
\* child afterwards
Kill ==
    /\ cl_pc = "kill"
    /\ cl_calls' = Append(cl_calls, "kill")
    /\ kill_pending' = (proc = "running")
    /\ cl_pc' = "done"
    /\ cl_return' = IF cl_site = "test_server_startup"
                    THEN << TRUE, 80 >> ELSE cl_return
    /\ UNCHANGED << cl_site, proc, term_pending, exit_cause, cl_polled,
                    waited >>
    /\ CleanupFrame

\* the child exits by itself, or because it honours a SIGTERM it was sent
ProcExits ==
    /\ proc = "running"
    /\ proc' = "exited"
    /\ exit_cause' \in IF term_pending THEN {"own", "SIGTERM"} ELSE {"own"}
    /\ UNCHANGED << cl_site, cl_pc, term_pending, kill_pending, cl_polled,
                    cl_calls, waited, cl_return >>
    /\ CleanupFrame

\* the kernel delivers SIGKILL
KillDelivered ==
    /\ proc = "running"
    /\ kill_pending
    /\ proc' = "exited"
    /\ exit_cause' = "SIGKILL"
    /\ UNCHANGED << cl_site, cl_pc, term_pending, kill_pending, cl_polled,
                    cl_calls, waited, cl_return >>
    /\ CleanupFrame

CleanupNext ==
    \/ SleepEnds
    \/ Poll
    \/ Terminate
    \/ Tick
    \/ WaitReturns
    \/ WaitTimesOut
    \/ Kill
    \/ ProcExits
    \/ KillDelivered

\* SIGKILL cannot be caught or ignored: a pending SIGKILL is delivered
SpecCleanup ==
    CleanupInit /\ [][CleanupNext]_vars /\ WF_vars(KillDelivered)

----------------------------------------------------------------------------
(* C11 *)

IsPrefix(s, t) ==
    /\ Len(s) <= Len(t)
    /\ \A i \in 1..Len(s) : s[i] = t[i]

Called(m) ==
    \E i \in 1..Len(cl_calls) : cl_calls[i] = m

----------------------------------------------------------------------------
(* The raw JSON-RPC clients: test_mcp_tool_invocation of
   llm-mcp-integration-test.py, and start_mcp_server followed by
   call_mcp_tool of real-llm-workflow-test.py. One session is one spawned
   server. *)

RpcClients ==
    {"test_mcp_tool_invocation", "RealLLMWorkflowTester"}

\* most tool calls the LLM asks for in one session (the final verification
\* call comes on top)
MaxToolCalls ==
    2

\* seconds that pass during one session
MaxClockAdvance ==
    1

\* int(time.time()) when the session starts
ClockStart ==
    1000

Request(method, id, name) ==
    [method |-> method, id |-> id, name |-> name]

\* what stdout.readline() returns: a JSON line with a truthy "result" (for
\* tools/list: naming list_tasks or not), a JSON line without one, a line
\* that is not JSON, or "" at end of file
Lines ==
    {[kind |-> "result", list_tasks |-> TRUE],
     [kind |-> "result", list_tasks |-> FALSE],
     [kind |-> "no_result", list_tasks |-> FALSE],
     [kind |-> "garbage", list_tasks |-> FALSE],
     [kind |-> "eof", list_tasks |-> FALSE]}

\* tool names the LLM asks for
ToolNames ==
    {"list_tasks", "plan_task"}

\* the guard of the tools/call request without the membership test
InvokesListTasks_any(line) ==
    line.kind = "result"

\* if tools_response: ... if "list_tasks" in tool_names
InvokesListTasks(line) ==
    line.kind = "result" /\ line.list_tasks

RpcInit ==
    /\ rpc_client \in RpcClients
    /\ rpc_pc = "write_initialize"
    /\ rpc_sent = << >>
    /\ rpc_reads = 0
    /\ names_list_tasks = FALSE
    /\ clock = ClockStart
    /\ tool_calls = 0
    /\ call_name = "none"
    /\ final_call = FALSE
    /\ rpc_status = "running"
    /\ RetryIdle
    /\ config_data = EmptyConfig
    /\ ThresholdIdle
    /\ BridgeIdle
    /\ CleanupIdle
    /\ SummaryIdle
    /\ IntegratedIdle
    /\ CIIdle
    /\ StartupIdle
    /\ TempIdle

\* the session is over with this status
RpcEnds(status) ==
    /\ rpc_pc' = "done"
    /\ rpc_status' = status

\* stdin.write / stdin.flush raising: test_mcp_tool_invocation catches it
\* (line 141), start_mcp_server lets it out
WriteRaises ==
    RpcEnds(IF rpc_client = "test_mcp_tool_invocation"
            THEN "error" ELSE "raised")

\* stdin.write(json.dumps(init_msg)), id 1
WriteInitialize ==
    /\ rpc_pc = "write_initialize"
    /\ \/ /\ rpc_sent' = Append(rpc_sent, Request("initialize", 1, "none"))
          /\ rpc_pc' = "read_initialize"
          /\ UNCHANGED rpc_status
       \/ /\ WriteRaises
          /\ UNCHANGED rpc_sent
    /\ UNCHANGED << rpc_client, rpc_reads, names_list_tasks, clock,
                    tool_calls, call_name, final_call >>
    /\ RpcFrame

\* readline() after initialize; start_mcp_server ignores what it read
ReadInitialize ==
    /\ rpc_pc = "read_initialize"
    /\ rpc_reads' = rpc_reads + 1
    /\ \E line \in Lines :
         IF rpc_client = "test_mcp_tool_invocation"
         THEN CASE line.kind = "no_result" -> RpcEnds("failed")
                [] line.kind = "garbage" -> RpcEnds("error")
                [] OTHER -> /\ rpc_pc' = "write_tools_list"
                            /\ UNCHANGED rpc_status
         ELSE /\ rpc_pc' = "write_tools_list"
              /\ UNCHANGED rpc_status
    /\ UNCHANGED << rpc_client, rpc_sent, names_list_tasks, clock,
                    tool_calls, call_name, final_call >>
    /\ RpcFrame

\* stdin.write(json.dumps(list_tools_msg)), id 2
WriteToolsList ==
    /\ rpc_pc = "write_tools_list"
    /\ \/ /\ rpc_sent' = Append(rpc_sent, Request("tools/list", 2, "none"))
          /\ rpc_pc' = "read_tools_list"
          /\ UNCHANGED rpc_status
       \/ /\ WriteRaises
          /\ UNCHANGED rpc_sent
    /\ UNCHANGED << rpc_client, rpc_reads, names_list_tasks, clock,
                    tool_calls, call_name, final_call >>
    /\ RpcFrame

\* readline() after tools/list
ReadToolsList ==
    /\ rpc_pc = "read_tools_list"
    /\ rpc_reads' = rpc_reads + 1
    /\ \E line \in Lines :
         IF rpc_client = "test_mcp_tool_invocation"
         THEN /\ names_list_tasks' = (line.kind = "result" /\ line.list_tasks)
              /\ UNCHANGED << call_name, final_call >>
              /\ CASE line.kind = "garbage" -> RpcEnds("error")
                   [] line.kind # "garbage" /\ InvokesListTasks(line) ->
                        /\ rpc_pc' = "write_tools_call"
                        /\ UNCHANGED rpc_status
                   [] OTHER -> RpcEnds("partial")
         ELSE /\ names_list_tasks' = (line.kind = "result" /\ line.list_tasks)
              /\ UNCHANGED << call_name, final_call >>
              /\ CASE line.kind = "garbage" -> RpcEnds("raised")
                   [] line.kind = "eof" -> RpcEnds("failed")
                   [] OTHER -> /\ rpc_pc' = "calls"
                               /\ UNCHANGED rpc_status
    /\ UNCHANGED << rpc_client, rpc_sent, clock, tool_calls >>
    /\ RpcFrame

\* the LLM asks for a tool (line 183)
LLMToolCall ==
    /\ rpc_pc = "calls"
    /\ tool_calls < MaxToolCalls
    /\ \E name \in ToolNames : call_name' = name
    /\ tool_calls' = tool_calls + 1
    /\ final_call' = FALSE
    /\ rpc_pc' = "write_tools_call"
    /\ UNCHANGED << rpc_client, rpc_sent, rpc_reads, names_list_tasks, clock,
                    rpc_status >>
    /\ RpcFrame

\* the conversation is over: final verification (line 216)
FinalVerification ==
    /\ rpc_pc = "calls"
    /\ call_name' = "list_tasks"
    /\ final_call' = TRUE
    /\ rpc_pc' = "write_tools_call"
    /\ UNCHANGED << rpc_client, rpc_sent, rpc_reads, names_list_tasks, clock,
                    tool_calls, rpc_status >>
    /\ RpcFrame

\* the chat completion raises (line 241)
LLMRaises ==
    /\ rpc_pc = "calls"
    /\ RpcEnds("error")
    /\ UNCHANGED << rpc_client, rpc_sent, rpc_reads, names_list_tasks, clock,
                    tool_calls, call_name, final_call >>
    /\ RpcFrame

\* time passes between two calls
ClockTick ==
    /\ rpc_pc = "calls"
    /\ clock < ClockStart + MaxClockAdvance
    /\ clock' = clock + 1
    /\ UNCHANGED << rpc_client, rpc_pc, rpc_sent, rpc_reads, names_list_tasks,
                    tool_calls, call_name, final_call, rpc_status >>
    /\ RpcFrame

\* where call_mcp_tool returns to
AfterCall ==
    IF final_call
    THEN RpcEnds("finished")
    ELSE /\ rpc_pc' = "calls"
         /\ UNCHANGED rpc_status

\* the tools/call request: id 3 for list_tasks in test_mcp_tool_invocation,
\* id int(time.time()) in call_mcp_tool, which catches a failing write
WriteToolsCall ==
    /\ rpc_pc = "write_tools_call"
    /\ IF rpc_client = "test_mcp_tool_invocation"
       THEN \/ /\ rpc_sent' = Append(rpc_sent,
                                     Request("tools/call", 3, "list_tasks"))
               /\ rpc_pc' = "read_tools_call"
               /\ UNCHANGED rpc_status
            \/ /\ WriteRaises
               /\ UNCHANGED rpc_sent
       ELSE \/ /\ rpc_sent' = Append(rpc_sent,
                                     Request("tools/call", clock, call_name))
               /\ rpc_pc' = "read_tools_call"
               /\ UNCHANGED rpc_status
            \/ /\ AfterCall
               /\ UNCHANGED rpc_sent
    /\ UNCHANGED << rpc_client, rpc_reads, names_list_tasks, clock,
                    tool_calls, call_name, final_call >>
    /\ RpcFrame

\* readline() after tools/call
ReadToolsCall ==
    /\ rpc_pc = "read_tools_call"
    /\ rpc_reads' = rpc_reads + 1
    /\ \E line \in Lines :
         IF rpc_client = "test_mcp_tool_invocation"
         THEN CASE line.kind = "result" -> RpcEnds("success")
                [] line.kind = "garbage" -> RpcEnds("error")
                [] OTHER -> RpcEnds("partial")
         ELSE AfterCall
    /\ UNCHANGED << rpc_client, rpc_sent, names_list_tasks, clock,
                    tool_calls, call_name, final_call >>
    /\ RpcFrame

RpcNext ==
    \/ WriteInitialize
    \/ ReadInitialize
    \/ WriteToolsList
    \/ ReadToolsList
    \/ LLMToolCall
    \/ FinalVerification
    \/ LLMRaises
    \/ ClockTick
    \/ WriteToolsCall
    \/ ReadToolsCall

SpecRpc ==
    RpcInit /\ [][RpcNext]_vars

----------------------------------------------------------------------------
(* C12 *)

----------------------------------------------------------------------------
(* C18 *)

\* C18: within one server session every request the client writes carries
\* an id distinct from the ids of all earlier requests of that session.
C18_RequestIdsDistinct ==
    \A i, j \in 1..Len(rpc_sent) :
        i # j => rpc_sent[i].id # rpc_sent[j].id

----------------------------------------------------------------------------
(* The CI tester's summary and exit code: _generate_enhanced_summary and
   main of scripts/ci-test-mcp.py. Rates are quotients of counts; a rate is
   compared with a threshold of h hundredths by cross-multiplication. *)

\* most results of one run explored
MaxTests ==
    20

\* num / den >= h / 100, where the rate is 0 when den is 0
\* (successful_tests / sm_total_tests if sm_total_tests > 0 else 0)
RateAtLeast(num, den, h) ==
    IF den > 0 THEN 100 * num >= h * den ELSE 0 >= h

\* average confidences explored, in 1/10000
AvgConfidences ==
    {7000, 7500, 9000}

methodological_pragmatism_compliant(s, v, t, avg, hc) ==
    /\ RateAtLeast(s, t, 80)
    /\ RateAtLeast(v, t, 80)
    /\ avg >= 7500
    /\ hc <= 1

\* the if / elif chain of lines 856-867
SummaryStatus(compliant, s, t) ==
    IF compliant /\ RateAtLeast(s, t, 95) THEN "EXCELLENT"
    ELSE IF compliant /\ RateAtLeast(s, t, 85) THEN "GOOD"
    ELSE IF RateAtLeast(s, t, 80) THEN "ACCEPTABLE"
    ELSE "FAILED"

\* exit 0 for compliant runs only
MainExit_compliantOnly(compliant, s, t) ==
    IF compliant /\ RateAtLeast(s, t, 80) THEN 0 ELSE 1

\* the if / elif chain of lines 953-962
MainExit(compliant, s, t) ==
    IF compliant /\ RateAtLeast(s, t, 80) THEN 0
    ELSE IF RateAtLeast(s, t, 80) THEN 0
    ELSE 1

SummaryInit ==
    /\ sm_pc = "preflight"
    /\ sm_total_tests \in 0..MaxTests
    /\ successful_tests \in 0..sm_total_tests
    \* verification_passed is set on PASSED results only
    /\ verified_tests \in 0..successful_tests
    /\ avg_confidence \in IF sm_total_tests = 0 THEN {0} ELSE AvgConfidences
    \* an error_type is set on FAILED results only
    /\ human_cognitive \in 0..Min(2, sm_total_tests - successful_tests)
    /\ sm_compliant = FALSE
    /\ sm_status = "none"
    /\ ci_exit = PyNone
    /\ RetryIdle
    /\ config_data = EmptyConfig
    /\ ThresholdIdle
    /\ BridgeIdle
    /\ CleanupIdle
    /\ RpcIdle
    /\ IntegratedIdle
    /\ CIIdle
    /\ StartupIdle
    /\ TempIdle

\* the pre-flight checks: package.json and dist/index.js exist, else exit 1
PreFlight ==
    /\ sm_pc = "preflight"
    /\ \E ok \in BOOLEAN :
         IF ok
         THEN /\ sm_pc' = "run"
              /\ UNCHANGED ci_exit
         ELSE /\ sm_pc' = "aborted"
              /\ ci_exit' = PyNum(1)
    /\ UNCHANGED << sm_total_tests, successful_tests, verified_tests,
                    avg_confidence, human_cognitive, sm_compliant, sm_status >>
    /\ SummaryFrame

\* _generate_enhanced_summary at the end of run_comprehensive_tests
GenerateSummary ==
    /\ sm_pc = "run"
    /\ sm_compliant' = methodological_pragmatism_compliant(
                           successful_tests, verified_tests, sm_total_tests,
                           avg_confidence, human_cognitive)
    /\ sm_status' = SummaryStatus(sm_compliant', successful_tests, sm_total_tests)
    /\ sm_pc' = "summary"
    /\ UNCHANGED << sm_total_tests, successful_tests, verified_tests,
                    avg_confidence, human_cognitive, ci_exit >>
    /\ SummaryFrame

\* json.dump of the summary to ci-test-results.json; an exception is
\* caught by main's except Exception, which exits 1
SaveResults ==
    /\ sm_pc = "summary"
    /\ \E ok \in BOOLEAN :
         IF ok
         THEN /\ sm_pc' = "saved"
              /\ UNCHANGED ci_exit
         ELSE /\ sm_pc' = "aborted"
              /\ ci_exit' = PyNum(1)
    /\ UNCHANGED << sm_total_tests, successful_tests, verified_tests,
                    avg_confidence, human_cognitive, sm_compliant, sm_status >>
    /\ SummaryFrame

\* the exit criteria of main
ExitCriteria ==
    /\ sm_pc = "saved"
    /\ ci_exit' = PyNum(MainExit(sm_compliant, successful_tests, sm_total_tests))
    /\ sm_pc' = "exited"
    /\ UNCHANGED << sm_total_tests, successful_tests, verified_tests,
                    avg_confidence, human_cognitive, sm_compliant, sm_status >>
    /\ SummaryFrame

SummaryNext ==
    \/ PreFlight
    \/ GenerateSummary
    \/ SaveResults
    \/ ExitCriteria

SpecSummary ==
    SummaryInit /\ [][SummaryNext]_vars

----------------------------------------------------------------------------
(* C13 *)

\* C13: a main that applies its exit criteria exits 0 exactly when
\* success_rate >= 0.8 (and no main exits 0 otherwise), which is exactly
\* when the summary status is not FAILED; the status is EXCELLENT only when
\* compliant and success_rate >= 0.95, GOOD only when compliant and
\* 0.85 <= success_rate < 0.95, ACCEPTABLE when success_rate >= 0.8 and
\* neither of those holds, FAILED exactly when success_rate < 0.8.
C13_ExitAndStatusFollowSuccessRate ==
    LET s == successful_tests
        t == sm_total_tests
    IN  /\ sm_pc = "exited" =>
             /\ ci_exit \in {PyNum(0), PyNum(1)}
             /\ (ci_exit = PyNum(0)) <=> RateAtLeast(s, t, 80)
             /\ (ci_exit = PyNum(0)) <=> (sm_status # "FAILED")
        /\ ci_exit = PyNum(0) => sm_pc = "exited"
        /\ sm_status # "none" =>
             /\ (sm_status # "FAILED") <=> RateAtLeast(s, t, 80)
             /\ sm_status = "EXCELLENT"
                  => sm_compliant /\ RateAtLeast(s, t, 95)
             /\ sm_status = "GOOD"
                  => sm_compliant /\ RateAtLeast(s, t, 85)
                        /\ ~RateAtLeast(s, t, 95)
             /\ (RateAtLeast(s, t, 80)
                   /\ ~(sm_compliant /\ RateAtLeast(s, t, 95))
                   /\ ~(sm_compliant /\ RateAtLeast(s, t, 85)
                          /\ ~RateAtLeast(s, t, 95)))
                  => sm_status = "ACCEPTABLE"
             /\ sm_status \in {"EXCELLENT", "GOOD", "ACCEPTABLE", "FAILED"}

\* a compliant run with 0.85 <= success_rate < 0.95 is GOOD and exits 0
C13_Witness ==
    /\ sm_pc = "exited"
    /\ sm_status = "GOOD"
    /\ successful_tests < sm_total_tests
    /\ ci_exit = PyNum(0)

----------------------------------------------------------------------------
(* SimpleIntegratedTester of test-integrated-simple.py: the sequence of
   tool calls of run_comprehensive_test. A call either fails (exception or
   no content) or succeeds with a text in which extract_uuid and
   extract_task_id find an id or find none. *)

\* most calls of one session that do not succeed
MaxFailures ==
    2

\* ids found in responses
Uuids ==
    {"uuid-a", "uuid-b"}

\* what one session.call_tool brings back: success, and the id the
\* extract_* patterns find in the text ("None": no match)
Outcomes ==
    { [success |-> TRUE, found |-> u] : u \in Uuids \cup {"None"} }
        \cup { [success |-> FALSE, found |-> "None"] }

\* the tools whose response test_tool searches for an id (create_spec for
\* self.spec_uuid; plan_task, split_tasks, execute_task for self.task_id);
\* test_task_execution searches the split_tasks response once more
Extracting ==
    {"create_spec", "plan_task", "split_tasks", "execute_task"}

\* for the other tools nothing is searched, so nothing is found
OutcomesOf(tool) ==
    IF tool \in Extracting
    THEN Outcomes
    ELSE { o \in Outcomes : o.found = "None" }

formats ==
    << "summary", "markdown", "json" >>

commands ==
    << "view", "help", "progress" >>

\* the guard of test_task_execution that lets every session through
HasTaskId_always(tid) ==
    TRUE

\* if self.task_id:
HasTaskId(tid) ==
    tid # "None"

Call(tool, id, o) ==
    [tool |-> tool, id |-> id, success |-> o.success, found |-> o.found]

\* test_tool: the call, the extraction into self.spec_uuid / self.task_id
test_tool(tool, id, o) ==
    /\ o.success \/ it_failures < MaxFailures
    /\ it_failures' = IF o.success THEN it_failures ELSE it_failures + 1
    /\ it_calls' = Append(it_calls, Call(tool, id, o))
    /\ spec_uuid' = IF tool = "create_spec" /\ o.success
                    THEN o.found ELSE spec_uuid
    /\ task_id' = IF tool \in {"plan_task", "split_tasks", "execute_task"}
                       /\ o.success /\ o.found # "None"
                  THEN o.found ELSE task_id

\* self.results[key] = value
Record(key, value) ==
    it_results' = (key :> value) @@ it_results

IntegratedInit ==
    /\ it_pc = "init_project_rules"
    /\ it_i = 1
    /\ spec_uuid = "None"
    /\ task_id = "None"
    /\ delete_task_id = "None"
    /\ it_results = << >>
    /\ it_calls = << >>
    /\ it_failures = 0
    /\ RetryIdle
    /\ config_data = EmptyConfig
    /\ ThresholdIdle
    /\ BridgeIdle
    /\ CleanupIdle
    /\ RpcIdle
    /\ SummaryIdle
    /\ CIIdle
    /\ StartupIdle
    /\ TempIdle

\* test_project_management
InitProjectRules ==
    /\ it_pc = "init_project_rules"
    /\ \E o \in OutcomesOf("init_project_rules") :
         /\ test_tool("init_project_rules", "None", o)
         /\ Record("init_project_rules", o.success)
    /\ it_pc' = "create_spec"
    /\ UNCHANGED << it_i, delete_task_id >>
    /\ IntegratedFrame

\* test_spec_workflow_detailed, step 1 and the guard of steps 2 and 3
CreateSpec ==
    /\ it_pc = "create_spec"
    /\ \E o \in OutcomesOf("create_spec") :
         /\ test_tool("create_spec", "None", o)
         /\ Record("create_spec", o.success)
         /\ it_pc' = IF o.success /\ spec_uuid' # "None"
                     THEN "get_spec" ELSE "plan_task"
    /\ it_i' = 1
    /\ UNCHANGED delete_task_id
    /\ IntegratedFrame

\* for format_type in formats: get_spec
GetSpec ==
    /\ it_pc = "get_spec"
    /\ \E o \in OutcomesOf("get_spec") :
         /\ test_tool("get_spec", spec_uuid, o)
         /\ Record("get_spec_" \o formats[it_i], o.success)
    /\ IF it_i < Len(formats)
       THEN /\ it_i' = it_i + 1
            /\ it_pc' = "get_spec"
       ELSE /\ it_i' = 1
            /\ it_pc' = "interact_spec"
    /\ UNCHANGED delete_task_id
    /\ IntegratedFrame

\* for cmd in commands: interact_spec
InteractSpec ==
    /\ it_pc = "interact_spec"
    /\ \E o \in OutcomesOf("interact_spec") :
         /\ test_tool("interact_spec", spec_uuid, o)
         /\ Record("interact_spec_" \o commands[it_i], o.success)
    /\ IF it_i < Len(commands)
       THEN /\ it_i' = it_i + 1
            /\ it_pc' = "interact_spec"
       ELSE /\ it_i' = 1
            /\ it_pc' = "plan_task"
    /\ UNCHANGED delete_task_id
    /\ IntegratedFrame

\* test_task_management_comprehensive, step 1
PlanTask ==
    /\ it_pc = "plan_task"
    /\ \E o \in OutcomesOf("plan_task") :
         /\ test_tool("plan_task", "None", o)
         /\ Record("plan_task", o.success)
         /\ it_pc' = IF o.success THEN "split_tasks" ELSE "list_tasks"
    /\ UNCHANGED << it_i, delete_task_id >>
    /\ IntegratedFrame

\* step 2, if plan_result['success']
SplitTasks ==
    /\ it_pc = "split_tasks"
    /\ \E o \in OutcomesOf("split_tasks") :
         /\ test_tool("split_tasks", "None", o)
         /\ Record("split_tasks", o.success)
    /\ it_pc' = "list_tasks"
    /\ UNCHANGED << it_i, delete_task_id >>
    /\ IntegratedFrame

\* step 3
ListTasks ==
    /\ it_pc = "list_tasks"
    /\ \E o \in OutcomesOf("list_tasks") :
         /\ test_tool("list_tasks", "None", o)
         /\ Record("list_tasks", o.success)
    /\ it_pc' = "query_task"
    /\ UNCHANGED << it_i, delete_task_id >>
    /\ IntegratedFrame

\* step 4 and the guard of step 5
QueryTask ==
    /\ it_pc = "query_task"
    /\ \E o \in OutcomesOf("query_task") :
         /\ test_tool("query_task", "None", o)
         /\ Record("query_task", o.success)
    /\ it_pc' = IF task_id' # "None" THEN "get_task_detail" ELSE "list_pending"
    /\ UNCHANGED << it_i, delete_task_id >>
    /\ IntegratedFrame

\* step 5
GetTaskDetail ==
    /\ it_pc = "get_task_detail"
    /\ \E o \in OutcomesOf("get_task_detail") :
         /\ test_tool("get_task_detail", task_id, o)
         /\ Record("get_task_detail", o.success)
    /\ it_pc' = "list_pending"
    /\ UNCHANGED << it_i, delete_task_id >>
    /\ IntegratedFrame

\* test_task_execution: list_tasks, then the guard; without a task id the
\* three results are recorded as False
ListPending ==
    /\ it_pc = "list_pending"
    /\ \E o \in OutcomesOf("list_tasks") : test_tool("list_tasks", "None", o)
    /\ IF HasTaskId(task_id')
       THEN /\ it_pc' = "execute_task"
            /\ UNCHANGED it_results
       ELSE /\ it_pc' = "research_mode"
            /\ it_results' = ("execute_task" :> FALSE) @@ ("verify_task" :> FALSE)
                               @@ ("delete_task" :> FALSE) @@ it_results
    /\ UNCHANGED << it_i, delete_task_id >>
    /\ IntegratedFrame

ExecuteTask ==
    /\ it_pc = "execute_task"
    /\ \E o \in OutcomesOf("execute_task") :
         /\ test_tool("execute_task", task_id, o)
         /\ Record("execute_task", o.success)
    /\ it_pc' = "verify_task"
    /\ UNCHANGED << it_i, delete_task_id >>
    /\ IntegratedFrame

VerifyTask ==
    /\ it_pc = "verify_task"
    /\ \E o \in OutcomesOf("verify_task") :
         /\ test_tool("verify_task", task_id, o)
         /\ Record("verify_task", o.success)
    /\ it_pc' = "split_for_delete"
    /\ UNCHANGED << it_i, delete_task_id >>
    /\ IntegratedFrame

\* split_tasks in append mode, extract_task_id of its content
SplitForDelete ==
    /\ it_pc = "split_for_delete"
    /\ \E o \in OutcomesOf("split_tasks") :
         /\ test_tool("split_tasks", "None", o)
         /\ delete_task_id' = o.found
         /\ IF o.success /\ o.found # "None"
            THEN /\ it_pc' = "delete_task"
                 /\ UNCHANGED it_results
            ELSE /\ it_pc' = "research_mode"
                 /\ Record("delete_task", FALSE)
    /\ UNCHANGED it_i
    /\ IntegratedFrame

DeleteTask ==
    /\ it_pc = "delete_task"
    /\ \E o \in OutcomesOf("delete_task") :
         /\ test_tool("delete_task", delete_task_id, o)
         /\ Record("delete_task", o.success)
    /\ it_pc' = "research_mode"
    /\ UNCHANGED << it_i, delete_task_id >>
    /\ IntegratedFrame

\* test_research_mode; generate_comprehensive_results follows
ResearchMode ==
    /\ it_pc = "research_mode"
    /\ \E o \in OutcomesOf("research_mode") :
         /\ test_tool("research_mode", "None", o)
         /\ Record("research_mode", o.success)
    /\ it_pc' = "done"
    /\ UNCHANGED << it_i, delete_task_id >>
    /\ IntegratedFrame

IntegratedNext ==
    \/ InitProjectRules
    \/ CreateSpec
    \/ GetSpec
    \/ InteractSpec
    \/ PlanTask
    \/ SplitTasks
    \/ ListTasks
    \/ QueryTask
    \/ GetTaskDetail
    \/ ListPending
    \/ ExecuteTask
    \/ VerifyTask
    \/ SplitForDelete
    \/ DeleteTask
    \/ ResearchMode

SpecIntegrated ==
    IntegratedInit /\ [][IntegratedNext]_vars

----------------------------------------------------------------------------
(* C14 *)

ToolCalled(tool) ==
    \E i \in 1..Len(it_calls) : it_calls[i].tool = tool

\* the part of the sequence that follows the guard of test_task_execution
PastExecutionGuard ==
    it_pc \in {"verify_task", "split_for_delete", "delete_task",
               "research_mode", "done"}

\* C14: get_spec and interact_spec are called only after a create_spec call
\* that succeeded and in whose response a spec UUID was found, and they pass
\* that UUID; execute_task and verify_task are called only with a task id
\* that was found in the response of an earlier plan_task, split_tasks or
\* execute_task call; when no task id was found by then, execute_task,
\* verify_task and delete_task are recorded as failed and none of them is
\* called.
C14_GuardedSequence ==
    /\ \A i \in 1..Len(it_calls) :
         it_calls[i].tool \in {"get_spec", "interact_spec"} =>
            /\ it_calls[i].id # "None"
            /\ \E j \in 1..(i - 1) :
                 /\ it_calls[j].tool = "create_spec"
                 /\ it_calls[j].success
                 /\ it_calls[j].found = it_calls[i].id
    /\ \A i \in 1..Len(it_calls) :
         it_calls[i].tool \in {"execute_task", "verify_task"} =>
            /\ it_calls[i].id # "None"
            /\ \E j \in 1..(i - 1) :
                 /\ it_calls[j].tool \in {"plan_task", "split_tasks",
                                          "execute_task"}
                 /\ it_calls[j].found = it_calls[i].id
    /\ (PastExecutionGuard /\ ~ToolCalled("execute_task")) =>
         /\ \A i \in 1..Len(it_calls) :
              it_calls[i].tool \in {"plan_task", "split_tasks"}
                 => it_calls[i].found = "None"
         /\ ~ToolCalled("verify_task")
         /\ ~ToolCalled("delete_task")
         /\ it_results["execute_task"] = FALSE
         /\ it_results["verify_task"] = FALSE
         /\ it_results["delete_task"] = FALSE

\* a session that found a spec UUID, and whose execute_task response
\* replaced the task id before verify_task
C14_Witness ==
    /\ it_pc = "done"
    /\ ToolCalled("interact_spec")
    /\ \E i, j \in 1..Len(it_calls) :
         /\ it_calls[i].tool = "execute_task"
         /\ it_calls[j].tool = "verify_task"
         /\ it_calls[i].id # it_calls[j].id

----------------------------------------------------------------------------
(* EnhancedCIMCPTester.run_comprehensive_tests of scripts/ci-test-mcp.py:
   the phases and the results they append. A test function returns a
   TestResult with status PASSED or FAILED; asyncio.CancelledError, which
   execute_with_retry does not catch, leaves the run. *)

\* longest expected_tools list explored
MaxTools ==
    2

\* tool names of the configuration; a name may occur twice in the list
ToolPool ==
    {"plan_task", "list_tasks"}

\* the configured lists of expected tools
ExpectedToolLists ==
    UNION { [1..n -> ToolPool] : n \in 0..MaxTools }

TestResult(test_name, status) ==
    [test_name |-> test_name, status |-> status]

\* a run that gives up at the first FAILED result
NextPhase_stopOnFailure(status, next) ==
    IF status = "FAILED" THEN "summary" ELSE next

\* the statement that follows self.results.append(result): the result's
\* status is not looked at
NextPhase(status, next) ==
    next

\* where the run goes after server_startup and after each tool
ToolsOrSummary(i) ==
    IF i <= Len(expected_tools) THEN "tool" ELSE "summary"

CIInit ==
    /\ ci_pc = "build_artifacts"
    /\ expected_tools \in ExpectedToolLists
    /\ ci_i = 1
    /\ ci_results = << >>
    /\ ci_total_tests = PyNone
    /\ RetryIdle
    /\ config_data = EmptyConfig
    /\ ThresholdIdle
    /\ BridgeIdle
    /\ CleanupIdle
    /\ RpcIdle
    /\ SummaryIdle
    /\ IntegratedIdle
    /\ StartupIdle
    /\ TempIdle

\* one phase: await the test function, append its result, go on; or the
\* await is cancelled
Phase(test_name, next) ==
    \/ \E status \in {"PASSED", "FAILED"} :
         /\ ci_results' = Append(ci_results, TestResult(test_name, status))
         /\ ci_pc' = NextPhase(status, next)
    \/ /\ ci_pc' = "raised"
       /\ UNCHANGED ci_results

\* Phase 1
BuildArtifactsPhase ==
    /\ ci_pc = "build_artifacts"
    /\ Phase("build_artifacts", "server_startup")
    /\ UNCHANGED << expected_tools, ci_i, ci_total_tests >>
    /\ CIFrame

\* Phase 2
ServerStartupPhase ==
    /\ ci_pc = "server_startup"
    /\ Phase("server_startup", ToolsOrSummary(1))
    /\ UNCHANGED << expected_tools, ci_i, ci_total_tests >>
    /\ CIFrame

\* Phase 3: for tool_name in self.expected_tools
ToolPhase ==
    /\ ci_pc = "tool"
    /\ Phase("tool_" \o expected_tools[ci_i], ToolsOrSummary(ci_i + 1))
    /\ ci_i' = IF ci_pc' = "raised" THEN ci_i ELSE ci_i + 1
    /\ UNCHANGED << expected_tools, ci_total_tests >>
    /\ CIFrame

\* _generate_enhanced_summary: total_tests = len(self.results)
CISummary ==
    /\ ci_pc = "summary"
    /\ ci_total_tests' = PyNum(Len(ci_results))
    /\ ci_pc' = "done"
    /\ UNCHANGED << expected_tools, ci_i, ci_results >>
    /\ CIFrame

CINext ==
    \/ BuildArtifactsPhase
    \/ ServerStartupPhase
    \/ ToolPhase
    \/ CISummary

SpecCI ==
    CIInit /\ [][CINext]_vars

----------------------------------------------------------------------------
(* C15 *)

\* the names of the results of a complete run
ExpectedNames ==
    << "build_artifacts", "server_startup" >>
        \o [i \in 1..Len(expected_tools) |-> "tool_" \o expected_tools[i]]

\* C15: the results are appended one per phase in the order build_artifacts,
\* server_startup, then one per expected tool in the order of the list;
\* after a FAILED result the run goes on with the next phase; and the
\* summary's total_tests is 2 plus the number of expected tools.
C15_OneResultPerPhaseInOrder ==
    /\ Len(ci_results) <= Len(ExpectedNames)
    /\ \A i \in 1..Len(ci_results) : ci_results[i].test_name = ExpectedNames[i]
    /\ ci_pc \in {"summary", "done"} => Len(ci_results) = Len(ExpectedNames)
    /\ ci_pc = "done" => ci_total_tests = PyNum(2 + Len(expected_tools))
    /\ (ci_pc \notin {"summary", "done", "raised"})
         => Len(ci_results) < Len(ExpectedNames)

\* a complete run over two tools whose first two phases failed
C15_Witness ==
    /\ ci_pc = "done"
    /\ Len(expected_tools) = 2
    /\ ci_results[1].status = "FAILED"
    /\ ci_results[2].status = "FAILED"
    /\ ci_total_tests = PyNum(4)
----------------------------------------------------------------------------
(* scripts/ci-test-mcp.py: EnhancedCITester.test_server_startup, which runs
   its execute_test under EnhancedRetryHandler.execute_with_retry *)

\* max_retries=2 of the execute_with_retry call
startup_max_retries ==
    2

\* "response_length": 100 of the dict execute_test returns
response_length ==
    100

\* what subprocess.run([self.node_path, "dist/index.js"], timeout=3) does:
\* the timeout expires with the server running, the server exits with a
\* return code, or the process cannot be started
RunOutcomes ==
    {"TimeoutExpired", "exit0", "exit1", "OSError"}

msg_node_not_found ==
    <<"N","o","d","e",".","j","s"," ","e","x","e","c","u","t","a","b","l",
      "e"," ","n","o","t"," ","f","o","u","n","d"," ","i","n"," ","P","A",
      "T","H">>

\* f"Server exited unexpectedly with code: {result.returncode}"
msg_server_exited(code) ==
    <<"S","e","r","v","e","r"," ","e","x","i","t","e","d"," ","u","n","e",
      "x","p","e","c","t","e","d","l","y"," ","w","i","t","h"," ","c","o",
      "d","e",":"," ">> \o << code >>

\* str() of the FileNotFoundError of a process that cannot be started
msg_no_such_file ==
    <<"[","E","r","r","n","o"," ","2","]"," ","N","o"," ","s","u","c","h",
      " ","f","i","l","e"," ","o","r"," ","d","i","r","e","c","t","o","r",
      "y">>

\* The exception execute_test raises, NoException when it returns its dict
execute_test(np, run) ==
    IF np = "None"
    THEN [cls |-> "FileNotFoundError", msg |-> msg_node_not_found]
    ELSE CASE run = "TimeoutExpired" -> NoException
           [] run = "exit0" ->
                [cls |-> "RuntimeError", msg |-> msg_server_exited("0")]
           [] run = "exit1" ->
                [cls |-> "RuntimeError", msg |-> msg_server_exited("1")]
           [] OTHER ->
                [cls |-> "FileNotFoundError", msg |-> msg_no_such_file]

\* What the attempt was, for the history st_attempts
AttemptKind(np, run) ==
    IF np = "None" THEN "no_node"
    ELSE CASE run = "TimeoutExpired" -> "timeout"
           [] run \in {"exit0", "exit1"} -> "exited"
           [] OTHER -> "spawn_error"

StartupStatus_alwaysPassed(result) ==
    "PASSED"

\* if isinstance(result, ErrorContext): status=TestStatus.FAILED
\* else: status=TestStatus.PASSED
StartupStatus(result) ==
    IF result.kind = "ErrorContext" THEN "FAILED" ELSE "PASSED"

\* what _find_node_path returns: the first executable candidate, or None
NodePaths ==
    {"None", "/usr/bin/node", "/usr/local/bin/node"}

StartupInit ==
    /\ node_path \in NodePaths
    /\ st_attempts = << >>
    /\ st_status = "none"
    /\ rh_pc = "try"
    /\ max_retries = startup_max_retries
    /\ base_delay = 1 * Resolution
    /\ max_delay = 60 * Resolution
    /\ attempt = 0
    /\ last_exception = NoException
    /\ error_type = "None"
    /\ delay = 0
    /\ rh_return = NoReturn
    /\ propagated = NoException
    /\ invocations = 0
    /\ op_raised = NoException
    /\ op_result = 0
    /\ waits = << >>
    /\ config_data = EmptyConfig
    /\ ThresholdIdle
    /\ BridgeIdle
    /\ CleanupIdle
    /\ RpcIdle
    /\ SummaryIdle
    /\ IntegratedIdle
    /\ CIIdle
    /\ TempIdle

\* result = await operation()  with operation = execute_test
StartupAttempt ==
    /\ rh_pc = "try"
    /\ st_status = "none"
    /\ \E run \in RunOutcomes, jitter \in Jitters :
          LET e == execute_test(node_path, run) IN
          /\ invocations' = invocations + 1
          /\ op_raised' = e
          /\ st_attempts' = Append(st_attempts, AttemptKind(node_path, run))
          /\ IF e = NoException
             THEN /\ op_result' = response_length
                  /\ rh_return' = ReturnResult(response_length)
                  /\ rh_pc' = "returned"
                  /\ UNCHANGED << last_exception, error_type, delay,
                                  propagated >>
             ELSE /\ HandleException(e, jitter)
                  /\ op_result' = op_result
    /\ UNCHANGED << max_retries, base_delay, max_delay, attempt, waits >>
    /\ UNCHANGED << node_path, st_status >>
    /\ StartupFrame

\* the TestResult test_server_startup returns
StartupResult ==
    /\ rh_pc = "returned"
    /\ st_status = "none"
    /\ st_status' = StartupStatus(rh_return)
    /\ UNCHANGED << node_path, st_attempts >>
    /\ UNCHANGED retryVars
    /\ StartupFrame

StartupNext ==
    \/ StartupAttempt
    \/ SleepDone
    \/ StartupResult

SpecStartup ==
    StartupInit /\ [][StartupNext]_vars

----------------------------------------------------------------------------
(* Claim about test_server_startup, checked under SpecStartup *)

\* C16: test_server_startup is PASSED exactly when one of its at most three
\* attempts found the server still running at the 3-second timeout; every
\* attempt before the last one is an early exit of the server, which is
\* retried until the third attempt; without a Node.js executable the test is
\* FAILED after its single attempt.
C16_PassedIffRunningAtTimeoutWithinThreeAttempts ==
    /\ Len(st_attempts) <= 3
    /\ \A i \in 1..(Len(st_attempts) - 1) : st_attempts[i] = "exited"
    /\ (rh_pc = "returned" /\ st_attempts[Len(st_attempts)] = "exited")
          => Len(st_attempts) = 3
    /\ st_status # "none" =>
          /\ Len(st_attempts) \in 1..3
          /\ st_status = "PASSED" <=>
                st_attempts[Len(st_attempts)] = "timeout"
          /\ st_status = "FAILED" <=>
                st_attempts[Len(st_attempts)] # "timeout"
          /\ node_path = "None" =>
                st_attempts = << "no_node" >> /\ st_status = "FAILED"

\* the server exited early twice and was still running at the timeout of the
\* third attempt
C16_Witness ==
    /\ st_status = "PASSED"
    /\ st_attempts = << "exited", "exited", "timeout" >>
----------------------------------------------------------------------------
(* The temporary test script of a tool test:
   scripts/ci-test-mcp.py  EnhancedCITester.test_tool_response (execute_test,
   run under execute_with_retry),
   dagger_enhanced/comprehensive_tool_tester.py  test_tool_via_mcp_call,
   dagger_enhanced/test_tool_responses.py  test_tool_response,
   show_tool_responses.py  capture_tool_response *)

TempSites ==
    {"ci", "comprehensive", "responses", "show"}

TempTools ==
    {<<"l","s">>, <<"p","t">>}

\* max_retries=3 of the execute_with_retry call of test_tool_response
tool_max_retries ==
    3

\* f"temp_enhanced_ci_test_{tool_name}.py" and its three siblings
TempFile(site, tool) ==
    CASE site = "ci" ->
           <<"t","e","m","p","_","e","n","h","a","n","c","e","d","_","c",
             "i","_","t","e","s","t","_">> \o tool \o <<".","p","y">>
      [] site = "comprehensive" ->
           <<"t","e","m","p","_","t","e","s","t","_">> \o tool
              \o <<".","p","y">>
      [] site = "responses" ->
           <<"t","e","m","p","_","t","o","o","l","_","t","e","s","t","_">>
              \o tool \o <<".","p","y">>
      [] OTHER ->
           <<"t","e","m","p","_","s","h","o","w","_">> \o tool
              \o <<".","p","y">>

\* with open(test_file, 'w') as f: f.write(test_script)
WriteFile(fs, name) ==
    fs \cup {name}

Unlink_keeps(fs, name) ==
    fs

\* if test_file.exists(): test_file.unlink()
Unlink(fs, name) ==
    IF name \in fs THEN fs \ {name} ELSE fs

\* what subprocess.run([sys.executable, str(test_file)], timeout=30) gives:
\* output with a result that parses, with one that does not, without one,
\* or subprocess.TimeoutExpired
ScriptRuns ==
    {"parsed", "unparsable", "missing", "TimeoutExpired"}

\* what execute_test does before it writes a script: raise for a missing
\* node_path, run the fallback test when mcp cannot be imported, or go on
PreScript ==
    {"node_missing", "fallback", "full"}

msg_node_not_found_tool ==
    <<"N","o","d","e",".","j","s"," ","e","x","e","c","u","t","a","b","l",
      "e"," ","n","o","t"," ","f","o","u","n","d"," ","f","o","r"," ","t",
      "o","o","l"," ","t","e","s","t","i","n","g">>

msg_parse_failed ==
    <<"F","a","i","l","e","d"," ","t","o"," ","p","a","r","s","e"," ","e",
      "n","h","a","n","c","e","d"," ","r","e","s","u","l","t"," ","J","S",
      "O","N">>

\* f"No enhanced result captured. STDOUT: {result.stdout[:200]}" with an
\* empty stdout
msg_no_result ==
    <<"N","o"," ","e","n","h","a","n","c","e","d"," ","r","e","s","u","l",
      "t"," ","c","a","p","t","u","r","e","d","."," ","S","T","D","O","U",
      "T",":"," ">>

\* str() of subprocess.TimeoutExpired, the command left out
msg_timed_out ==
    <<"C","o","m","m","a","n","d"," ","t","i","m","e","d"," ","o","u","t",
      " ","a","f","t","e","r"," ","3","0"," ","s","e","c","o","n","d","s">>

\* The exception that leaves the try block of the site, NoException when the
\* block returns
LeavesTry(site, run) ==
    CASE site = "ci" /\ run = "unparsable" ->
           [cls |-> "ValueError", msg |-> msg_parse_failed]
      [] site = "ci" /\ run = "missing" ->
           [cls |-> "ValueError", msg |-> msg_no_result]
      [] run = "TimeoutExpired" ->
           [cls |-> "TimeoutExpired", msg |-> msg_timed_out]
      [] OTHER -> NoException

\* Whether the function of the site raises: the two dagger_enhanced testers
\* catch TimeoutExpired and Exception around the try/finally and return
RaisesOut(site, run) ==
    /\ site \in {"ci", "show"}
    /\ LeavesTry(site, run) # NoException

TempInit ==
    /\ tf_site \in TempSites
    /\ tf_tool \in TempTools
    /\ tf_pre \in IF tf_site = "ci" THEN PreScript ELSE {"full"}
    /\ tf_pc = "enter"
    /\ files \in SUBSET {TempFile(tf_site, tf_tool)}
    /\ tf_run = "none"
    /\ tf_exits = << >>
    /\ rh_pc = IF tf_site = "ci" THEN "try" ELSE "idle"
    /\ max_retries = IF tf_site = "ci" THEN tool_max_retries ELSE 0
    /\ base_delay = IF tf_site = "ci" THEN 1 * Resolution ELSE 0
    /\ max_delay = IF tf_site = "ci" THEN 60 * Resolution ELSE 0
    /\ attempt = 0
    /\ last_exception = NoException
    /\ error_type = "None"
    /\ delay = 0
    /\ rh_return = NoReturn
    /\ propagated = NoException
    /\ invocations = 0
    /\ op_raised = NoException
    /\ op_result = 0
    /\ waits = << >>
    /\ config_data = EmptyConfig
    /\ ThresholdIdle
    /\ BridgeIdle
    /\ CleanupIdle
    /\ RpcIdle
    /\ SummaryIdle
    /\ IntegratedIdle
    /\ CIIdle
    /\ StartupIdle

\* The function is at its start (for the CI tester: the retry loop calls
\* execute_test)
AtEntry ==
    /\ tf_pc = "enter"
    /\ tf_site = "ci" => rh_pc = "try"

\* execute_test of the CI tester ends before a script is written
NoScriptAttempt ==
    /\ AtEntry
    /\ tf_site = "ci"
    /\ tf_pre # "full"
    /\ invocations' = invocations + 1
    /\ IF tf_pre = "node_missing"
       THEN \E jitter \in Jitters :
               LET e == [cls |-> "FileNotFoundError",
                         msg |-> msg_node_not_found_tool] IN
               /\ op_raised' = e
               /\ HandleException(e, jitter)
               /\ op_result' = op_result
       ELSE /\ op_raised' = NoException
            /\ op_result' = invocations + 1
            /\ rh_return' = ReturnResult(op_result')
            /\ rh_pc' = "returned"
            /\ UNCHANGED << last_exception, error_type, delay, propagated >>
    /\ tf_pc' = IF rh_pc' = "sleep" THEN "enter" ELSE "done"
    /\ UNCHANGED << max_retries, base_delay, max_delay, attempt, waits >>
    /\ UNCHANGED << tf_site, tf_tool, tf_pre, files, tf_run, tf_exits >>
    /\ TempFrame

\* with open(test_file, 'w') as f: f.write(test_script)
WriteScript ==
    /\ AtEntry
    /\ tf_pre = "full"
    /\ files' = WriteFile(files, TempFile(tf_site, tf_tool))
    /\ tf_pc' = "written"
    /\ UNCHANGED << tf_site, tf_tool, tf_pre, tf_run, tf_exits >>
    /\ UNCHANGED retryVars
    /\ TempFrame

\* try: result = subprocess.run(..., timeout=30) ... up to the return or
\* raise that leaves the try block
RunScript ==
    /\ tf_pc = "written"
    /\ tf_run' \in ScriptRuns
    /\ tf_pc' = "ran"
    /\ UNCHANGED << tf_site, tf_tool, tf_pre, files, tf_exits >>
    /\ UNCHANGED retryVars
    /\ TempFrame

\* finally: if test_file.exists(): test_file.unlink()   and then the return
\* or raise of the function; tf_exits records whether the file is there
FinallyAndExit ==
    /\ tf_pc = "ran"
    /\ tf_site # "ci"
    /\ files' = Unlink(files, TempFile(tf_site, tf_tool))
    /\ tf_exits' = Append(tf_exits,
          [how |-> IF RaisesOut(tf_site, tf_run) THEN "raised"
                   ELSE "returned",
           exists |-> TempFile(tf_site, tf_tool) \in files'])
    /\ tf_pc' = "done"
    /\ UNCHANGED << tf_site, tf_tool, tf_pre, tf_run >>
    /\ UNCHANGED retryVars
    /\ TempFrame

\* the same for execute_test of the CI tester, whose return or raise goes to
\* execute_with_retry
FinallyAndExitCI ==
    /\ tf_pc = "ran"
    /\ tf_site = "ci"
    /\ files' = Unlink(files, TempFile(tf_site, tf_tool))
    /\ tf_exits' = Append(tf_exits,
          [how |-> IF RaisesOut(tf_site, tf_run) THEN "raised"
                   ELSE "returned",
           exists |-> TempFile(tf_site, tf_tool) \in files'])
    /\ invocations' = invocations + 1
    /\ op_raised' = LeavesTry(tf_site, tf_run)
    /\ IF op_raised' = NoException
       THEN /\ op_result' = invocations + 1
            /\ rh_return' = ReturnResult(op_result')
            /\ rh_pc' = "returned"
            /\ UNCHANGED << last_exception, error_type, delay, propagated >>
       ELSE /\ \E jitter \in Jitters : HandleException(op_raised', jitter)
            /\ op_result' = op_result
    /\ tf_pc' = IF rh_pc' = "sleep" THEN "enter" ELSE "done"
    /\ UNCHANGED << max_retries, base_delay, max_delay, attempt, waits >>
    /\ UNCHANGED << tf_site, tf_tool, tf_pre, tf_run >>
    /\ TempFrame

TempNext ==
    \/ NoScriptAttempt
    \/ WriteScript
    \/ RunScript
    \/ FinallyAndExit
    \/ FinallyAndExitCI
    \/ SleepDone

SpecTemp ==
    TempInit /\ [][TempNext]_vars

----------------------------------------------------------------------------
(* Claim about the temporary test scripts, checked under SpecTemp *)

\* C17: whenever a tool test function returns or raises after it wrote its
\* temporary script, the script file no longer exists, whatever the script
\* run gave (a parsed result, unparsable or missing output, a timeout); under
\* the retry handler this holds at the end of every attempt.
C17_TempScriptGoneAtExit ==
    /\ \A i \in DOMAIN tf_exits : ~tf_exits[i].exists
    /\ (tf_exits # << >> /\ tf_pc \in {"enter", "done"})
          => TempFile(tf_site, tf_tool) \notin files

\* the CI tester: a scripted attempt that timed out, was retried, and a later
\* attempt that returned a parsed result
C17_Witness ==
    /\ tf_site = "ci"
    /\ tf_pc = "done"
    /\ Len(tf_exits) >= 2
    /\ tf_exits[1].how = "raised"
    /\ tf_exits[Len(tf_exits)].how = "returned"
    /\ tf_run = "parsed"

====
